---- MODULE Spec2Model ----
(***************************************************************************)
(* Delay propagation engine of stskit (src/planung.py, class Planung).     *)
(*                                                                         *)
(* The state is the Planung object: the trains (ZugDetailsPlanung) with    *)
(* their timetable rows (ZugZielPlanung), the train graph (zugbaum), the   *)
(* target graph (zielgraph), the sort orders derived from them and the     *)
(* simulator clock.  One action per public operation of Planung:           *)
(* zuege_uebernehmen, ereignis_uebernehmen, fdl_korrektur_setzen and       *)
(* verspaetungen_korrigieren.  An operation that raises leaves the object  *)
(* in the state it had when the exception was raised; p.fehler names the   *)
(* exception the last operation raised ("" when it returned).              *)
(*                                                                         *)
(* Representation.  A time of day (datetime.time) is a pair <<h, m>>, an   *)
(* absent time is <<>>.  A reference to a train is its zid (0 for None), a *)
(* reference to a row is <<zid, index>> (<<0, 0>> for None): trains and    *)
(* rows are never deleted or reordered.  Indices are Python indices (from  *)
(* 0, negative from the end).  angekommen/abgefahren are NEIN (False), JA  *)
(* (True) or a timestamp in minutes.  Not modelled: the display fields     *)
(* (name, hinweistext, usertext), the per-row actual track (gleis), the    *)
(* weak index zielindex_plan and the attributes t_an, t_ab, zid, zielnr,   *)
(* plan, typ of a zielgraph node, none of which the engine reads back.     *)
(***************************************************************************)
EXTENDS Integers, Sequences, FiniteSets, TLC

VARIABLES sim, p, letzte, zaehler

vars == <<sim, p, letzte, zaehler>>

(***************************************************************************)
(* Bounds of the model                                                     *)
(***************************************************************************)
\* largest delay (minutes) reported by the simulator or set by the dispatcher
MaxVerspaetung == 3
\* number of operations in one run, and of each kind among them
MaxOps == 3
MaxUebernahmen == 2
MaxEreignisse == 2
MaxFdl == 2
\* number of nested calls of verspaetungen_korrigieren the interpreter
\* allows before it raises RecursionError
MaxTiefe == 8

(***************************************************************************)
(* Values                                                                  *)
(***************************************************************************)
NEIN == -2
JA == -1
KeineZeit == <<>>
KeinIndex == -9
KeinZiel == <<0, 0>>

Max(a, b) == IF a >= b THEN a ELSE b
Abs(a) == IF a >= 0 THEN a ELSE 0 - a

RECURSIVE MaxVon(_)
MaxVon(S) == LET x == CHOOSE y \in S : TRUE
             IN IF S = {x} THEN x ELSE Max(x, MaxVon(S \ {x}))

Wahr(x) == x # NEIN
\* x or True
OderJa(x) == IF Wahr(x) THEN x ELSE JA

\* stsobj.time_to_minutes / minutes_to_time on <<h, m>>
time_to_minutes(t) == t[1] * 60 + t[2]
minutes_to_time(m) == <<m \div 60, m % 60>>
minutes_to_time_ok(m) == m >= 0 /\ m \div 60 <= 23
HatZeit(t) == t # KeineZeit

Uhr(h, m) == <<h, m>>

(***************************************************************************)
(* Corrections (VerspaetungsKorrektur and subclasses)                      *)
(***************************************************************************)
Korrektur(typ, v, u, w) == [typ |-> typ, verspaetung |-> v, ursprung |-> u, wartezeit |-> w]
KeineKorrektur == Korrektur("None", 0, KeinZiel, 0)
FesteVerspaetung(v) == Korrektur("Fix", v, KeinZiel, 0)
Signalhalt(v) == Korrektur("Signal", v, KeinZiel, 0)
Einfahrtszeit == Korrektur("Einfahrt", 0, KeinZiel, 0)
PlanmaessigeAbfahrt == Korrektur("Plan", 0, KeinZiel, 0)
AnkunftAbwarten(u, w) == Korrektur("Ankunft", 0, u, w)
AbfahrtAbwarten(u, w) == Korrektur("Abfahrt", 0, u, w)
Ersatzzug == Korrektur("Ersatz", 0, KeinZiel, 0)
Kupplung == Korrektur("Kupplung", 0, KeinZiel, 0)
Fluegelung == Korrektur("Fluegelung", 0, KeinZiel, 0)

(***************************************************************************)
(* Simulator data: the timetables the plugin client delivers               *)
(***************************************************************************)
Flag(typ, zid) == [typ |-> typ, zid |-> zid]
KeinFlag == Flag("", 0)

\* FahrplanZeile of the simulator
SimZeile(plan, an, ab, flag) == [plan |-> plan, an |-> an, ab |-> ab, flags |-> flag]

\* master data of a simulator train
SimZug(von, nach, fahrplan) == [von |-> von, nach |-> nach, fahrplan |-> fahrplan]

\* FahrplanZeile.ersatz_zid, kuppel_zid, fluegel_zid, durchfahrt and the
\* dwell flags, read from the flag of the row
ersatz_zid(ziel) == IF ziel.flags.typ = "E" THEN ziel.flags.zid ELSE 0
kuppel_zid(ziel) == IF ziel.flags.typ = "K" THEN ziel.flags.zid ELSE 0
fluegel_zid(ziel) == IF ziel.flags.typ = "F" THEN ziel.flags.zid ELSE 0
durchfahrt(ziel) == ziel.flags.typ = "D"
richtungswechsel(ziel) == ziel.flags.typ = "R"
lokumlauf(ziel) == ziel.flags.typ = "L"
lokwechsel(ziel) == ziel.flags.typ = "W"

\* str.startswith("Gleis") and str.replace("Gleis ", "") on the names used
startswith_Gleis(s) == s \in {"Gleis A", "Gleis B"}
replace_Gleis(s) == IF s = "Gleis A" THEN "A" ELSE IF s = "Gleis B" THEN "B" ELSE s

(***************************************************************************)
(* Helpers on sequences with Python indices                                *)
(***************************************************************************)
RECURSIVE Fold(_, _, _)
Fold(Op(_, _), acc, s) == IF s = <<>> THEN acc ELSE Fold(Op, Op(acc, Head(s)), Tail(s))

\* the Python indices 0 .. len-1 of a list
Indizes(s) == 0 .. (Len(s) - 1)
\* s[i] with a Python index i (negative: from the end)
Elem(s, i) == IF i >= 0 THEN s[i + 1] ELSE s[Len(s) + i + 1]
IndexOk(s, i) == IF i >= 0 THEN i < Len(s) ELSE 0 - i <= Len(s)
\* the Python indices selected by the slice s[0:k]
SliceBis(s, k) == IF k >= 0 THEN {i \in Indizes(s) : i < k} ELSE {i \in Indizes(s) : i < Len(s) + k}
\* the list of 0 .. n-1
RECURSIVE Bereich(_)
Bereich(n) == IF n <= 0 THEN <<>> ELSE Append(Bereich(n - 1), n - 1)

\* sequencing of statements: F continues with the object pl unless an
\* exception is propagating
Dann(pl, F(_)) == IF pl.fehler # "" THEN pl ELSE F(pl)

(***************************************************************************)
(* ZugZielPlanung: a timetable row                                         *)
(***************************************************************************)
\* ZugZielPlanung.__init__ followed by the assignments of the given fields
ZugZielPlanung(plan, an, ab, flags) ==
    [plan |-> plan, an |-> an, ab |-> ab, flags |-> flags,
     zielnr |-> KeinIndex, einfahrt |-> FALSE, ausfahrt |-> FALSE,
     verspaetung_an |-> 0, verspaetung_ab |-> 0, mindestaufenthalt |-> 0,
     auto_korrektur |-> KeineKorrektur, fdl_korrektur |-> KeineKorrektur,
     angekommen |-> NEIN, abgefahren |-> NEIN,
     ersatzzug |-> 0, kuppelzug |-> 0, fluegelzug |-> 0]

assign_fahrplan_zeile(zeile) == ZugZielPlanung(zeile.plan, zeile.an, zeile.ab, zeile.flags)

(***************************************************************************)
(* ZugDetailsPlanung: a train                                              *)
(***************************************************************************)
\* ZugDetails.find_fahrplan_index(plan=...): index of the first row with
\* that plan track, KeinIndex for None
find_fahrplan_index(fahrplan, plan) ==
    IF \E i \in Indizes(fahrplan) : fahrplan[i + 1].plan = plan
    THEN CHOOSE i \in Indizes(fahrplan) :
            /\ fahrplan[i + 1].plan = plan
            /\ \A j \in Indizes(fahrplan) : fahrplan[j + 1].plan = plan => i <= j
    ELSE KeinIndex

\* the rows built by assign_zug_details, before the start-up marking
FahrplanAufbau(zug) ==
    LET von == IF zug.von # "" THEN replace_Gleis(zug.von) ELSE ""
        nach == IF zug.nach # "" THEN replace_Gleis(zug.nach) ELSE ""
        erste == IF Len(zug.fahrplan) > 0 THEN zug.fahrplan[1].an ELSE KeineZeit
        letzteAb == IF Len(zug.fahrplan) > 0 THEN zug.fahrplan[Len(zug.fahrplan)].ab ELSE KeineZeit
        ein == IF ~zug.sichtbar /\ von # "" /\ ~startswith_Gleis(zug.von)
               THEN <<[ZugZielPlanung(von, erste, erste, KeinFlag) EXCEPT !.einfahrt = TRUE]>>
               ELSE <<>>
        mitte == [i \in 1 .. Len(zug.fahrplan) |-> assign_fahrplan_zeile(zug.fahrplan[i])]
        aus == IF nach # "" /\ ~startswith_Gleis(zug.nach)
               THEN <<[ZugZielPlanung(nach, letzteAb, letzteAb, KeinFlag) EXCEPT !.ausfahrt = TRUE]>>
               ELSE <<>>
        alle == ein \o mitte \o aus
    IN [n \in 1 .. Len(alle) |-> [alle[n] EXCEPT !.zielnr = (n - 1) * 1000]]

\* start-up marking of assign_zug_details for a train that is already visible
Startaufstellung(fahrplan, zug) ==
    IF ~zug.sichtbar THEN fahrplan
    ELSE LET gefunden == find_fahrplan_index(fahrplan, zug.plangleis)
             ziel_index == IF gefunden = KeinIndex THEN -1 ELSE gefunden
             vorher == SliceBis(fahrplan, ziel_index)
             f1 == [n \in 1 .. Len(fahrplan) |->
                      IF (n - 1) \in vorher
                      THEN [fahrplan[n] EXCEPT !.abgefahren = JA, !.angekommen = JA,
                                               !.verspaetung_ab = zug.verspaetung,
                                               !.verspaetung_an = zug.verspaetung]
                      ELSE fahrplan[n]]
             k == IF ziel_index >= 0 THEN ziel_index + 1 ELSE Len(fahrplan) + ziel_index + 1
         IN IF zug.amgleis
            THEN [f1 EXCEPT ![k].angekommen = JA, ![k].verspaetung_an = zug.verspaetung]
            ELSE f1

\* ZugDetailsPlanung.__init__ and assign_zug_details
assign_zug_details(zug) ==
    [zid |-> zug.zid,
     von |-> IF zug.von # "" THEN replace_Gleis(zug.von) ELSE "",
     nach |-> IF zug.nach # "" THEN replace_Gleis(zug.nach) ELSE "",
     verspaetung |-> 0, sichtbar |-> FALSE, amgleis |-> FALSE,
     gleis |-> "", plangleis |-> "",
     ausgefahren |-> FALSE, folgezuege_aufgeloest |-> FALSE, korrekturen_definiert |-> FALSE,
     ziel_index |-> KeinIndex,
     fahrplan |-> Startaufstellung(FahrplanAufbau(zug), zug)]

\* update_zug_details as it would be if it repeated the start-up rule of
\* assign_zug_details: a train reported at the platform gets its delay
\* written into the arrival delay of its current row
update_zug_details_mit_ankunft(zp, zug) ==
    LET gefunden == find_fahrplan_index(zp.fahrplan, zug.plangleis)
    IN [zp EXCEPT
          !.gleis = IF zug.gleis # "" THEN zug.gleis ELSE zp.nach,
          !.plangleis = IF zug.gleis # "" THEN zug.plangleis ELSE zp.nach,
          !.verspaetung = zug.verspaetung,
          !.amgleis = zug.amgleis,
          !.sichtbar = zug.sichtbar,
          !.ziel_index = IF gefunden # KeinIndex THEN gefunden
                         ELSE IF zug.plangleis = "" THEN -1 ELSE zp.ziel_index,
          !.fahrplan = [n \in 1 .. Len(zp.fahrplan) |->
                          IF zug.amgleis /\ gefunden # KeinIndex /\ n = gefunden + 1
                          THEN [zp.fahrplan[n] EXCEPT !.verspaetung_an = zug.verspaetung]
                          ELSE zp.fahrplan[n]]]

\* update_zug_details: the volatile attributes of a known train
update_zug_details(zp, zug) ==
    LET gefunden == find_fahrplan_index(zp.fahrplan, zug.plangleis)
    IN [zp EXCEPT
          !.gleis = IF zug.gleis # "" THEN zug.gleis ELSE zp.nach,
          !.plangleis = IF zug.gleis # "" THEN zug.plangleis ELSE zp.nach,
          !.verspaetung = zug.verspaetung,
          !.amgleis = zug.amgleis,
          !.sichtbar = zug.sichtbar,
          !.ziel_index = IF gefunden # KeinIndex THEN gefunden
                         ELSE IF zug.plangleis = "" THEN -1 ELSE zp.ziel_index]

(***************************************************************************)
(* Planung: graphs                                                         *)
(***************************************************************************)
\* f with f[k] = v, k added to the domain when new
Setze(f, k, v) == [x \in (DOMAIN f) \cup {k} |-> IF x = k THEN v ELSE f[x]]

\* Planung.__init__
PlanungInit ==
    [zug |-> <<>>,
     zbN |-> <<>>, zbE |-> {},
     zgN |-> <<>>, zgE |-> {},
     zielsortierung |-> [neu |-> FALSE, rest |-> <<>>],
     zugsortierung |-> <<>>, zugliste |-> <<>>, zugstamm |-> <<>>,
     simzeit_minuten |-> 0,
     tiefe |-> 0,
     fehler |-> ""]

\* zid -> the train object is known (zugbaum.nodes[zid]['obj'] exists)
HatObj(pl, zid) == zid \in DOMAIN pl.zug
InSeq(s, x) == \E i \in 1 .. Len(s) : s[i] = x
SeqAdd(s, x) == IF InSeq(s, x) THEN s ELSE Append(s, x)

\* ZugZielNode
ZugZielNode(typ, zid, plangleis) == [typ |-> typ, zid |-> zid, plangleis |-> plangleis]

\* Planung._zugziel_node(ziel) with the default arguments
zugziel_node(ziel, zid) ==
    ZugZielNode(IF ziel.einfahrt THEN "E"
                ELSE IF ziel.ausfahrt THEN "A"
                ELSE IF ziel.zielnr > (ziel.zielnr \div 1000) * 1000 THEN "B"
                ELSE IF durchfahrt(ziel) THEN "D"
                ELSE "H",
                zid, ziel.plan)

\* node attributes: attr = FALSE is a node that add_edge created
KnotenDaten(obj, p_an, p_ab, v) ==
    [attr |-> TRUE, obj |-> obj, p_an |-> p_an, p_ab |-> p_ab, v_an |-> v, v_ab |-> v]
OhneDaten == [attr |-> FALSE, obj |-> KeinZiel, p_an |-> 0, p_ab |-> 0, v_an |-> 0, v_ab |-> 0]

\* DiGraph.add_edge on the zielgraph: creates missing end nodes, replaces
\* the attributes of an existing edge
zg_add_edge(g, u, v, typ) ==
    LET n1 == IF u \in DOMAIN g.zgN THEN g.zgN ELSE Setze(g.zgN, u, OhneDaten)
        n2 == IF v \in DOMAIN n1 THEN n1 ELSE Setze(n1, v, OhneDaten)
    IN [g EXCEPT !.zgN = n2,
                 !.zgE = {e \in g.zgE : ~(e.von = u /\ e.nach = v)}
                         \cup {[von |-> u, nach |-> v, typ |-> typ]}]

\* DiGraph.add_edge on the zugbaum
zb_add_edge(g, zid1, zid2, flag, zielnr) ==
    [g EXCEPT !.zbN = SeqAdd(SeqAdd(g.zbN, zid1), zid2),
              !.zbE = {e \in g.zbE : ~(e.von = zid1 /\ e.nach = zid2)}
                      \cup {[von |-> zid1, nach |-> zid2, flag |-> flag, zielnr |-> zielnr]}]

\* the body of the inner loop of _zielgraph_erstellen for row i of train zid2
zielgraph_ziel(g, zid2, i) ==
    LET zug == g.zug[zid2]
        ziel2 == zug.fahrplan[i + 1]
        zzid2 == zugziel_node(ziel2, zid2)
        plan_ab == IF HatZeit(ziel2.ab) THEN time_to_minutes(ziel2.ab)
                   ELSE IF HatZeit(ziel2.an) THEN time_to_minutes(ziel2.an) ELSE KeinIndex
        plan_an == IF HatZeit(ziel2.an) THEN time_to_minutes(ziel2.an) ELSE plan_ab
        knoten(gx) == [gx EXCEPT !.zgN = Setze(gx.zgN, zzid2,
                                     KnotenDaten(<<zid2, i>>, plan_an, plan_ab, zug.verspaetung))]
        vorgaenger(gx) == IF i > 0
                          THEN zg_add_edge(gx, zugziel_node(zug.fahrplan[i], zid2), zzid2, "P")
                          ELSE gx
        peer(zid, flag, gx) ==
            IF zid # 0
            THEN zb_add_edge(zg_add_edge(gx, zzid2, ZugZielNode("H", zid, ziel2.plan), flag),
                             zid2, zid, flag, ziel2.zielnr)
            ELSE gx
        u == ziel2.fdl_korrektur.ursprung
        abhaengigkeit(gx) ==
            IF ziel2.fdl_korrektur.typ \in {"Ankunft", "Abfahrt"} /\ u # KeinZiel
            THEN zg_add_edge(gx, zugziel_node(gx.zug[u[1]].fahrplan[u[2] + 1], u[1]), zzid2, "A")
            ELSE gx
    IN IF g.fehler # "" THEN g
       ELSE IF plan_an = KeinIndex THEN [g EXCEPT !.fehler = "TypeError"]
       ELSE abhaengigkeit(peer(fluegel_zid(ziel2), "F",
                               peer(kuppel_zid(ziel2), "K",
                                    peer(ersatz_zid(ziel2), "E", vorgaenger(knoten(g))))))

\* _zielgraph_erstellen up to the sort: the nodes and edges of all trains,
\* in the order of the zugbaum nodes
zielgraph_aufbau(pl) ==
    Fold(LAMBDA g, zid2 :
            IF HatObj(g, zid2)
            THEN Fold(LAMBDA gg, i : zielgraph_ziel(gg, zid2, i), g,
                      Bereich(Len(g.zug[zid2].fahrplan)))
            ELSE g,
         pl, pl.zbN)

\* _zielgraph_erstellen: nx.topological_sort returns a generator that has
\* not started; NetworkXUnfeasible cannot be raised here
zielgraph_erstellen(pl) ==
    Dann(zielgraph_aufbau(pl),
         LAMBDA g : [g EXCEPT !.zielsortierung = [neu |-> TRUE, rest |-> <<>>]])

(***************************************************************************)
(* networkx                                                                *)
(***************************************************************************)
\* the element a zielsortierung generator ends with when the graph has a
\* cycle: the next() that reaches it raises NetworkXUnfeasible
Unfeasible == ZugZielNode("!", 0, "")

\* nx.topological_sort: the orders it can produce are the orders in which
\* every node follows all its predecessors; N nodes, E edges (von, nach).
\* With a cycle the nodes that no cycle reaches are produced, then the
\* generator raises NetworkXUnfeasible (ende).
RECURSIVE topological_sort(_, _, _)
topological_sort(N, E, ende) ==
    LET frei == {n \in N : \A e \in E : (e.nach = n /\ e.von \in N) => FALSE}
    IN IF N = {} THEN {<<>>}
       ELSE IF frei = {} THEN {<<ende>>}
       ELSE UNION {{<<n>> \o s : s \in topological_sort(N \ {n}, E, ende)} : n \in frei}

SeqSet(s) == {s[i] : i \in 1 .. Len(s)}

\* nx.connected_components on the undirected view: the component of zid
RECURSIVE Erreichbar(_, _)
Erreichbar(S, E) ==
    LET T == S \cup {e.nach : e \in {x \in E : x.von \in S}}
                \cup {e.von : e \in {x \in E : x.nach \in S}}
    IN IF T = S THEN S ELSE Erreichbar(T, E)
connected_component(zid, E) == Erreichbar({zid}, E)

(***************************************************************************)
(* Planung: ingestion                                                      *)
(***************************************************************************)
\* _folgezuege_aufloesen: the peer attributes of the rows from the edges of
\* the zugbaum
folgezuege_aufloesen(pl) ==
    LET ziel_neu(zid1, ziel1) ==
            LET kanten(flag) == {e \in pl.zbE : e.von = zid1 /\ e.zielnr = ziel1.zielnr
                                                 /\ e.flag = flag}
                zug2(flag) == LET e == CHOOSE x \in kanten(flag) : TRUE
                              IN IF HatObj(pl, e.nach) THEN e.nach ELSE 0
            IN [ziel1 EXCEPT
                  !.ersatzzug = IF kanten("E") # {} THEN zug2("E") ELSE @,
                  !.kuppelzug = IF kanten("K") # {} THEN zug2("K") ELSE @,
                  !.fluegelzug = IF kanten("F") # {} THEN zug2("F") ELSE @]
    IN [pl EXCEPT !.zug = [zid1 \in DOMAIN pl.zug |->
                             [pl.zug[zid1] EXCEPT !.fahrplan =
                                [n \in 1 .. Len(pl.zug[zid1].fahrplan) |->
                                   ziel_neu(zid1, pl.zug[zid1].fahrplan[n])]]]]

\* _zugbaum_analysieren with the order sortierung that topological_sort
\* produced (<<Unfeasible>>: the zugbaum has a cycle and the sort raises)
zugbaum_analysieren(pl, sortierung) ==
    IF sortierung # <<>> /\ sortierung[Len(sortierung)] = 0
    THEN [pl EXCEPT !.fehler = "NetworkXUnfeasible"]
    ELSE [pl EXCEPT !.zugsortierung = sortierung,
                    !.zugstamm = [zid \in (DOMAIN pl.zugstamm) \cup SeqSet(pl.zbN) |->
                                    IF InSeq(pl.zbN, zid) THEN connected_component(zid, pl.zbE)
                                    ELSE pl.zugstamm[zid]],
                    !.zugliste = SelectSeq(sortierung, LAMBDA zid : HatObj(pl, zid))]

\* the row <<zid, i>>
Ziel(pl, z) == pl.zug[z[1]].fahrplan[z[2] + 1]
SetzeZiel(pl, z, ziel) == [pl EXCEPT !.zug[z[1]].fahrplan[z[2] + 1] = ziel]

\* ziel_korrekturen_definieren for the row <<zid, i>>: acc.pl the Planung,
\* acc.result the value returned
ziel_korrekturen_definieren(pl, z) ==
    LET ziel0 == Ziel(pl, z)
        m == IF richtungswechsel(ziel0) THEN 2
             ELSE IF lokumlauf(ziel0) THEN 2
             ELSE IF lokwechsel(ziel0) THEN 5
             ELSE ziel0.mindestaufenthalt
        ziel == [ziel0 EXCEPT !.mindestaufenthalt = m]
        pl1 == SetzeZiel(pl, z, ziel)
        mit(korr) == SetzeZiel(pl, z, [ziel EXCEPT !.auto_korrektur = korr,
                                                   !.mindestaufenthalt = Max(m, 1)])
        \* peer.fahrplan[0].auto_korrektur = anschluss
        erstes(plx, peer, anschluss) ==
            IF peer # 0 /\ Len(plx.zug[peer].fahrplan) > 0
            THEN [pl |-> [plx EXCEPT !.zug[peer].fahrplan[1].auto_korrektur = anschluss],
                  result |-> TRUE]
            ELSE [pl |-> plx, result |-> FALSE]
        \* peer.find_fahrplanzeile(plan=ziel.plan).auto_korrektur = anschluss
        amGleis(plx, peer, anschluss) ==
            IF peer # 0 /\ find_fahrplan_index(plx.zug[peer].fahrplan, ziel.plan) # KeinIndex
            THEN [pl |-> [plx EXCEPT !.zug[peer].fahrplan[
                                        find_fahrplan_index(plx.zug[peer].fahrplan, ziel.plan) + 1
                                     ].auto_korrektur = anschluss],
                  result |-> TRUE]
            ELSE [pl |-> plx, result |-> FALSE]
    IN IF ziel.einfahrt
       THEN [pl |-> SetzeZiel(pl, z, [ziel EXCEPT !.auto_korrektur = Einfahrtszeit]),
             result |-> TRUE]
       ELSE IF ziel.ausfahrt \/ durchfahrt(ziel) THEN [pl |-> pl1, result |-> TRUE]
       ELSE IF ersatz_zid(ziel) # 0
       THEN erstes(mit(Ersatzzug), ziel.ersatzzug, AnkunftAbwarten(z, 0))
       ELSE IF kuppel_zid(ziel) # 0
       THEN amGleis(mit(Kupplung), ziel.kuppelzug, AnkunftAbwarten(z, 0))
       ELSE IF fluegel_zid(ziel) # 0
       THEN erstes(mit(Fluegelung), ziel.fluegelzug, AbfahrtAbwarten(z, 2))
       ELSE IF ziel.auto_korrektur = KeineKorrektur
       THEN [pl |-> SetzeZiel(pl, z, [ziel EXCEPT !.auto_korrektur = PlanmaessigeAbfahrt]),
             result |-> TRUE]
       ELSE [pl |-> pl1, result |-> TRUE]

\* zug_korrekturen_definieren
zug_korrekturen_definieren(pl, zid) ==
    Fold(LAMBDA acc, i :
            LET mit(r) == [pl |-> r.pl, result |-> acc.result /\ r.result]
            IN mit(ziel_korrekturen_definieren(acc.pl, <<zid, i>>)),
         [pl |-> pl, result |-> TRUE],
         Bereich(Len(pl.zug[zid].fahrplan)))

\* korrekturen_definieren: the trains of zuege(), in the order of zugsortierung
korrekturen_definieren(pl) ==
    Fold(LAMBDA plx, zid :
            LET mit(r) == [r.pl EXCEPT !.zug[zid].korrekturen_definiert =
                                          r.pl.zug[zid].folgezuege_aufgeloest /\ r.result]
            IN IF HatObj(plx, zid) /\ ~plx.zug[zid].korrekturen_definiert
               THEN mit(zug_korrekturen_definieren(plx, zid))
               ELSE plx,
         pl, pl.zugsortierung)

\* the first two loops of zuege_uebernehmen as they would be if a train of
\* the snapshot were always built anew from the master data
zuege_einlesen_neu(pl, zuege) ==
    LET ausgefahrene_zuege == SeqSet(pl.zbN) \ {zuege[k].zid : k \in 1 .. Len(zuege)}
        weg(zug) == [zug EXCEPT !.sichtbar = FALSE, !.amgleis = FALSE,
                                !.gleis = "", !.plangleis = "", !.ausgefahren = TRUE,
                                !.fahrplan = [n \in 1 .. Len(zug.fahrplan) |->
                                                [zug.fahrplan[n] EXCEPT !.abgefahren = OderJa(@)]]]
        markiert(pl1) ==
            [pl1 EXCEPT !.zug = [zid \in DOMAIN pl1.zug |->
                                   IF zid \in ausgefahrene_zuege /\ pl1.zug[zid].sichtbar
                                   THEN weg(pl1.zug[zid]) ELSE pl1.zug[zid]]]
    IN markiert(Fold(LAMBDA plx, zug :
                        [plx EXCEPT !.zug = Setze(plx.zug, zug.zid,
                                               update_zug_details(assign_zug_details(zug), zug)),
                                    !.zbN = SeqAdd(plx.zbN, zug.zid)],
                     pl, zuege))

\* the first two loops of zuege_uebernehmen; zuege is the list of trains of
\* the snapshot
zuege_einlesen(pl, zuege) ==
    LET ausgefahrene_zuege == SeqSet(pl.zbN) \ {zuege[k].zid : k \in 1 .. Len(zuege)}
        weg(zug) == [zug EXCEPT !.sichtbar = FALSE, !.amgleis = FALSE,
                                !.gleis = "", !.plangleis = "", !.ausgefahren = TRUE,
                                !.fahrplan = [n \in 1 .. Len(zug.fahrplan) |->
                                                [zug.fahrplan[n] EXCEPT !.abgefahren = OderJa(@)]]]
        markiert(pl1) ==
            [pl1 EXCEPT !.zug = [zid \in DOMAIN pl1.zug |->
                                   IF zid \in ausgefahrene_zuege /\ pl1.zug[zid].sichtbar
                                   THEN weg(pl1.zug[zid]) ELSE pl1.zug[zid]]]
    IN markiert(Fold(LAMBDA plx, zug :
                        [plx EXCEPT !.zug = Setze(plx.zug, zug.zid,
                                               update_zug_details(
                                                  IF HatObj(plx, zug.zid) THEN plx.zug[zug.zid]
                                                  ELSE assign_zug_details(zug), zug)),
                                    !.zbN = SeqAdd(plx.zbN, zug.zid)],
                     pl, zuege))

\* zuege_uebernehmen up to the call of _zugbaum_analysieren if it built the
\* rows of the trains of the snapshot anew
zuege_vorbereiten_neu(pl, zuege) ==
    Dann(zielgraph_erstellen(zuege_einlesen_neu([pl EXCEPT !.fehler = ""], zuege)),
         LAMBDA pl1 : folgezuege_aufloesen(pl1))

\* zuege_uebernehmen up to the call of _zugbaum_analysieren
zuege_vorbereiten(pl, zuege) ==
    Dann(zielgraph_erstellen(zuege_einlesen([pl EXCEPT !.fehler = ""], zuege)),
         LAMBDA pl1 : folgezuege_aufloesen(pl1))

\* the orders topological_sort(zugbaum) can produce in _zugbaum_analysieren
Zugsortierungen(pl) == topological_sort(SeqSet(pl.zbN), pl.zbE, 0)

\* zuege_uebernehmen; sortierung is the order topological_sort(zugbaum)
\* produces in _zugbaum_analysieren
zuege_uebernehmen(pl, zuege, sortierung) ==
    Dann(Dann(zuege_vorbereiten(pl, zuege),
              LAMBDA pl1 : zugbaum_analysieren(pl1, sortierung)),
         LAMBDA pl2 : korrekturen_definieren(pl2))

(***************************************************************************)
(* Planung: propagation                                                    *)
(***************************************************************************)
Vorgaenger(pl, node) == {e.von : e \in {x \in pl.zgE : x.nach = node}}

RECURSIVE korrigieren(_), korrigiere_knoten(_, _), anwenden(_, _, _),
          zugverspaetung_korrigieren(_)

\* the dwell computation without the minimum dwell: the row leaves at its
\* planned departure, or at frueh
AbfahrtNach_ohne_mindestaufenthalt(plan_an, plan_ab, ziel, frueh) ==
    LET ankunft == plan_an + ziel.verspaetung_an
        aufenthalt == plan_ab - ankunft
    IN Max(ankunft + aufenthalt, frueh) - plan_ab

\* the dwell computation shared by the corrections: departure delay of a
\* row that arrives at plan_an + v_an, may not leave before frueh and not
\* before plan_ab
AbfahrtNach(plan_an, plan_ab, ziel, frueh) ==
    LET ankunft == plan_an + ziel.verspaetung_an
        aufenthalt == Max(plan_ab - ankunft, ziel.mindestaufenthalt)
    IN Max(ankunft + aufenthalt, frueh) - plan_ab

\* AnkunftAbwarten.anwenden / AbfahrtAbwarten.anwenden without the waiting time
abwarten_anwenden_ohne_wartezeit(pl, korr, z) ==
    LET ziel == Ziel(pl, z)
        hatU == korr.ursprung # KeinZiel
        u == Ziel(pl, korr.ursprung)
        uzeit == IF korr.typ = "Ankunft" THEN u.an ELSE u.ab
        uversp == IF korr.typ = "Ankunft" THEN u.verspaetung_an ELSE u.verspaetung_ab
        plan_ab == IF HatZeit(ziel.ab) THEN time_to_minutes(ziel.ab)
                   ELSE time_to_minutes(ziel.an) + ziel.mindestaufenthalt
        plan_an == IF HatZeit(ziel.an) THEN time_to_minutes(ziel.an) ELSE plan_ab
        anschluss_ab == time_to_minutes(uzeit) + uversp
    IN IF ~HatZeit(ziel.an) /\ ~HatZeit(ziel.ab) THEN [pl EXCEPT !.fehler = "TypeError"]
       ELSE IF ~hatU THEN [pl EXCEPT !.fehler = "AttributeError"]
       ELSE IF ~HatZeit(uzeit) THEN [pl EXCEPT !.fehler = "AttributeError"]
       ELSE SetzeZiel(pl, z, [ziel EXCEPT !.verspaetung_ab =
                                 AbfahrtNach(plan_an, plan_ab, ziel, anschluss_ab)])

\* AnkunftAbwarten.anwenden / AbfahrtAbwarten.anwenden
abwarten_anwenden(pl, korr, z) ==
    LET ziel == Ziel(pl, z)
        hatU == korr.ursprung # KeinZiel
        u == Ziel(pl, korr.ursprung)
        uzeit == IF korr.typ = "Ankunft" THEN u.an ELSE u.ab
        uversp == IF korr.typ = "Ankunft" THEN u.verspaetung_an ELSE u.verspaetung_ab
        plan_ab == IF HatZeit(ziel.ab) THEN time_to_minutes(ziel.ab)
                   ELSE time_to_minutes(ziel.an) + ziel.mindestaufenthalt
        plan_an == IF HatZeit(ziel.an) THEN time_to_minutes(ziel.an) ELSE plan_ab
        anschluss_ab == time_to_minutes(uzeit) + uversp + korr.wartezeit
    IN IF ~HatZeit(ziel.an) /\ ~HatZeit(ziel.ab) THEN [pl EXCEPT !.fehler = "TypeError"]
       ELSE IF ~hatU THEN [pl EXCEPT !.fehler = "AttributeError"]
       ELSE IF ~HatZeit(uzeit) THEN [pl EXCEPT !.fehler = "AttributeError"]
       ELSE SetzeZiel(pl, z, [ziel EXCEPT !.verspaetung_ab =
                                 AbfahrtNach(plan_an, plan_ab, ziel, anschluss_ab)])

\* Ersatzzug.anwenden if it kept the delay of the replacement train
ersatzzug_anwenden_ohne_uebergabe(pl, z) ==
    LET ziel == Ziel(pl, z)
        ez == ziel.ersatzzug
        plan_an == time_to_minutes(ziel.an)
        plan_ab == IF ez # 0 /\ Len(pl.zug[ez].fahrplan) > 0 /\ HatZeit(pl.zug[ez].fahrplan[1].an)
                   THEN time_to_minutes(pl.zug[ez].fahrplan[1].an)
                   ELSE IF HatZeit(ziel.ab) THEN time_to_minutes(ziel.ab)
                   ELSE plan_an + ziel.mindestaufenthalt
        mit(v_ab) ==
            IF ~minutes_to_time_ok(plan_ab)
            THEN [SetzeZiel(pl, z, [ziel EXCEPT !.verspaetung_ab = v_ab])
                    EXCEPT !.fehler = "ValueError"]
            ELSE [SetzeZiel(pl, z, [ziel EXCEPT !.verspaetung_ab = v_ab,
                                                !.ab = minutes_to_time((plan_ab + v_ab) - v_ab)])
                    EXCEPT !.zug = @]
    IN IF ~HatZeit(ziel.an)
       THEN SetzeZiel(pl, z, [ziel EXCEPT !.verspaetung_ab = ziel.verspaetung_an])
       ELSE IF ez # 0 /\ minutes_to_time_ok(plan_ab)
       THEN zugverspaetung_korrigieren(mit(AbfahrtNach(plan_an, plan_ab, ziel, plan_ab)))
       ELSE mit(AbfahrtNach(plan_an, plan_ab, ziel, plan_ab))

\* Ersatzzug.anwenden
ersatzzug_anwenden(pl, z) ==
    LET ziel == Ziel(pl, z)
        ez == ziel.ersatzzug
        plan_an == time_to_minutes(ziel.an)
        plan_ab == IF ez # 0 /\ Len(pl.zug[ez].fahrplan) > 0 /\ HatZeit(pl.zug[ez].fahrplan[1].an)
                   THEN time_to_minutes(pl.zug[ez].fahrplan[1].an)
                   ELSE IF HatZeit(ziel.ab) THEN time_to_minutes(ziel.ab)
                   ELSE plan_an + ziel.mindestaufenthalt
        mit(v_ab) ==
            IF ~minutes_to_time_ok(plan_ab)
            THEN [SetzeZiel(pl, z, [ziel EXCEPT !.verspaetung_ab = v_ab])
                    EXCEPT !.fehler = "ValueError"]
            ELSE [SetzeZiel(pl, z, [ziel EXCEPT !.verspaetung_ab = v_ab,
                                                !.ab = minutes_to_time((plan_ab + v_ab) - v_ab)])
                    EXCEPT !.zug = IF ez # 0
                                   THEN [@ EXCEPT ![ez].verspaetung = v_ab]
                                   ELSE @]
    IN IF ~HatZeit(ziel.an)
       THEN SetzeZiel(pl, z, [ziel EXCEPT !.verspaetung_ab = ziel.verspaetung_an])
       ELSE IF ez # 0 /\ minutes_to_time_ok(plan_ab)
       THEN zugverspaetung_korrigieren(mit(AbfahrtNach(plan_an, plan_ab, ziel, plan_ab)))
       ELSE mit(AbfahrtNach(plan_an, plan_ab, ziel, plan_ab))

\* the loop condition of Kupplung.anwenden if it asked for 3 minutes
kuppel_bedingung_drei_minuten(kuppel_an, plan_an, v_an) ==
    Abs(kuppel_an - (plan_an + v_an)) < 3

\* the loop condition of Kupplung.anwenden:
\* abs(kuppel_an - (plan_an + ziel.verspaetung_an)) < 2
kuppel_bedingung(kuppel_an, plan_an, v_an) ==
    Abs(kuppel_an - (plan_an + v_an)) < 2

\* the loop of Kupplung.anwenden if it asked for a separation of 1 minute
kuppel_schleife_eine_minute(kuppel_an, plan_an, v_an) ==
    IF Abs(kuppel_an - (plan_an + v_an)) < 1 THEN v_an + 1 ELSE v_an

\* the loop of Kupplung.anwenden:
\* while abs(kuppel_an - (plan_an + ziel.verspaetung_an)) < 2: ziel.verspaetung_an += 1
RECURSIVE kuppel_schleife(_, _, _)
kuppel_schleife(kuppel_an, plan_an, v_an) ==
    IF Abs(kuppel_an - (plan_an + v_an)) < 2
    THEN kuppel_schleife(kuppel_an, plan_an, v_an + 1)
    ELSE v_an

\* Kupplung.anwenden
kupplung_anwenden(pl, z) ==
    LET ziel == Ziel(pl, z)
        kz == ziel.kuppelzug
        plan_an == time_to_minutes(ziel.an)
        plan_ab == IF HatZeit(ziel.ab) THEN time_to_minutes(ziel.ab)
                   ELSE plan_an + ziel.mindestaufenthalt
        \* pl1: the object after the call of zugverspaetung_korrigieren in
        \* the try block, which catches AttributeError and IndexError
        nach_kuppelzug(pl1) ==
            LET gefangen == pl1.fehler \in {"AttributeError", "IndexError"}
                kuppel_index == IF kz # 0 THEN find_fahrplan_index(pl1.zug[kz].fahrplan, ziel.plan)
                                ELSE KeinIndex
                kuppel_ziel == pl1.zug[kz].fahrplan[kuppel_index + 1]
                kuppel_an == IF gefangen \/ kz = 0 \/ ~HatZeit(kuppel_ziel.an) THEN 0
                             ELSE time_to_minutes(kuppel_ziel.an) + kuppel_ziel.verspaetung_an
                mit(ziel3) == SetzeZiel([pl1 EXCEPT !.fehler = ""], z,
                                 [ziel3 EXCEPT !.verspaetung_ab =
                                     AbfahrtNach(plan_an, plan_ab, ziel3, kuppel_an)])
                pl3 == mit([Ziel(pl1, z) EXCEPT !.verspaetung_an =
                               kuppel_schleife(kuppel_an, plan_an, @)])
            IN IF pl1.fehler # "" /\ ~gefangen THEN pl1
               ELSE IF ~gefangen /\ kz # 0 /\ kuppel_index = KeinIndex
               THEN [pl1 EXCEPT !.fehler = "TypeError"]
               ELSE IF kz # 0 THEN zugverspaetung_korrigieren(pl3)
               ELSE pl3
    IN IF ~HatZeit(ziel.an)
       THEN SetzeZiel(pl, z, [ziel EXCEPT !.verspaetung_ab = ziel.verspaetung_an])
       ELSE nach_kuppelzug(zugverspaetung_korrigieren(pl))

\* Fluegelung.anwenden if it kept the delay of the new train
fluegelung_anwenden_ohne_uebergabe(pl, z) ==
    LET ziel == Ziel(pl, z)
        fz == ziel.fluegelzug
        plan_an == time_to_minutes(ziel.an)
        plan_ab == IF HatZeit(ziel.ab) THEN time_to_minutes(ziel.ab)
                   ELSE plan_an + ziel.mindestaufenthalt
        mit(pl1) ==
            IF fz = 0 THEN pl1
            ELSE IF Len(pl1.zug[fz].fahrplan) = 0
            THEN [pl1 EXCEPT !.zug[fz].verspaetung = ziel.verspaetung_an,
                             !.fehler = "IndexError"]
            ELSE zugverspaetung_korrigieren([pl1 EXCEPT
                                 !.zug[fz].fahrplan[1].verspaetung_an = ziel.verspaetung_an])
    IN IF ~HatZeit(ziel.an)
       THEN SetzeZiel(pl, z, [ziel EXCEPT !.verspaetung_ab = ziel.verspaetung_an])
       ELSE mit(SetzeZiel(pl, z, [ziel EXCEPT !.verspaetung_ab =
                                     AbfahrtNach(plan_an, plan_ab, ziel, plan_ab)]))

\* Fluegelung.anwenden
fluegelung_anwenden(pl, z) ==
    LET ziel == Ziel(pl, z)
        fz == ziel.fluegelzug
        plan_an == time_to_minutes(ziel.an)
        plan_ab == IF HatZeit(ziel.ab) THEN time_to_minutes(ziel.ab)
                   ELSE plan_an + ziel.mindestaufenthalt
        mit(pl1) ==
            IF fz = 0 THEN pl1
            ELSE IF Len(pl1.zug[fz].fahrplan) = 0
            THEN [pl1 EXCEPT !.zug[fz].verspaetung = ziel.verspaetung_an,
                             !.fehler = "IndexError"]
            ELSE zugverspaetung_korrigieren([pl1 EXCEPT !.zug[fz].verspaetung = ziel.verspaetung_an,
                                         !.zug[fz].fahrplan[1].verspaetung_an = ziel.verspaetung_an])
    IN IF ~HatZeit(ziel.an)
       THEN SetzeZiel(pl, z, [ziel EXCEPT !.verspaetung_ab = ziel.verspaetung_an])
       ELSE mit(SetzeZiel(pl, z, [ziel EXCEPT !.verspaetung_ab =
                                     AbfahrtNach(plan_an, plan_ab, ziel, plan_ab)]))

\* anwenden with an Einfahrtszeit that does not look at the clock
anwenden_ohne_uhr(pl, korr, z) ==
    LET ziel == Ziel(pl, z)
        gleich == SetzeZiel(pl, z, [ziel EXCEPT !.verspaetung_ab = ziel.verspaetung_an])
        plan_an == time_to_minutes(ziel.an)
    IN CASE korr.typ \in {"Fix", "Signal"} ->
                SetzeZiel(pl, z, [ziel EXCEPT !.verspaetung_ab = korr.verspaetung])
         [] korr.typ = "Einfahrt" ->
                IF ~HatZeit(ziel.an) THEN gleich
                ELSE LET plan_ab == IF HatZeit(ziel.ab) THEN time_to_minutes(ziel.ab) ELSE plan_an
                         ankunft == plan_an + ziel.verspaetung_an
                         abfahrt == ankunft
                     IN SetzeZiel(pl, z, [ziel EXCEPT !.verspaetung_ab = abfahrt - plan_ab])
         [] korr.typ = "Plan" ->
                IF ~HatZeit(ziel.an) THEN gleich
                ELSE LET plan_ab == IF HatZeit(ziel.ab) THEN time_to_minutes(ziel.ab)
                                    ELSE plan_an + ziel.mindestaufenthalt
                     IN SetzeZiel(pl, z, [ziel EXCEPT !.verspaetung_ab =
                                             AbfahrtNach(plan_an, plan_ab, ziel, plan_ab)])
         [] korr.typ \in {"Ankunft", "Abfahrt"} -> abwarten_anwenden(pl, korr, z)
         [] korr.typ = "Ersatz" -> ersatzzug_anwenden(pl, z)
         [] korr.typ = "Kupplung" -> kupplung_anwenden(pl, z)
         [] korr.typ = "Fluegelung" -> fluegelung_anwenden(pl, z)
         [] OTHER -> gleich

\* VerspaetungsKorrektur.anwenden of the correction korr on the row z
anwenden(pl, korr, z) ==
    LET ziel == Ziel(pl, z)
        gleich == SetzeZiel(pl, z, [ziel EXCEPT !.verspaetung_ab = ziel.verspaetung_an])
        plan_an == time_to_minutes(ziel.an)
    IN CASE korr.typ \in {"Fix", "Signal"} ->
                SetzeZiel(pl, z, [ziel EXCEPT !.verspaetung_ab = korr.verspaetung])
         [] korr.typ = "Einfahrt" ->
                IF ~HatZeit(ziel.an) THEN gleich
                ELSE LET plan_ab == IF HatZeit(ziel.ab) THEN time_to_minutes(ziel.ab) ELSE plan_an
                         ankunft == plan_an + ziel.verspaetung_an
                         abfahrt == Max(ankunft, pl.simzeit_minuten)
                     IN SetzeZiel(pl, z, [ziel EXCEPT !.verspaetung_ab = abfahrt - plan_ab])
         [] korr.typ = "Plan" ->
                IF ~HatZeit(ziel.an) THEN gleich
                ELSE LET plan_ab == IF HatZeit(ziel.ab) THEN time_to_minutes(ziel.ab)
                                    ELSE plan_an + ziel.mindestaufenthalt
                     IN SetzeZiel(pl, z, [ziel EXCEPT !.verspaetung_ab =
                                             AbfahrtNach(plan_an, plan_ab, ziel, plan_ab)])
         [] korr.typ \in {"Ankunft", "Abfahrt"} -> abwarten_anwenden(pl, korr, z)
         [] korr.typ = "Ersatz" -> ersatzzug_anwenden(pl, z)
         [] korr.typ = "Kupplung" -> kupplung_anwenden(pl, z)
         [] korr.typ = "Fluegelung" -> fluegelung_anwenden(pl, z)
         [] OTHER -> gleich

\* the body of the loop if it corrected the rows that have departed too
korrigiere_knoten_auch_abgefahrene(pl, node) ==
    LET data == pl.zgN[node]
        z == data.obj
        ziel == Ziel(pl, z)
        zug == pl.zug[z[1]]
        pred == Vorgaenger(pl, node)
        v == {pl.zgN[n].v_ab : n \in pred}
        vomZug == ziel.einfahrt \/ zug.plangleis = ziel.plan \/ pred = {}
        v_an == IF Wahr(ziel.angekommen) THEN ziel.verspaetung_an
                ELSE MaxVon(IF vomZug THEN v \cup {zug.verspaetung} ELSE v)
        \* ziel.verspaetung_an = zug.verspaetung and data['v_an'] = v_an
        ankunft == [pl EXCEPT !.zug[z[1]].fahrplan[z[2] + 1].verspaetung_an =
                                 IF ~Wahr(ziel.angekommen) /\ vomZug THEN zug.verspaetung ELSE @,
                              !.zgN[node].v_an = v_an]
        \* ziel.verspaetung_ab of a row that has not departed
        abfahrt(pl2) ==
            IF ziel.fdl_korrektur # KeineKorrektur \/ ziel.auto_korrektur # KeineKorrektur
            THEN anwenden(pl2, IF ziel.fdl_korrektur # KeineKorrektur THEN ziel.fdl_korrektur
                               ELSE ziel.auto_korrektur, z)
            ELSE [pl2 EXCEPT !.zug[z[1]].fahrplan[z[2] + 1].verspaetung_ab =
                                Ziel(pl2, z).verspaetung_an]
    IN IF ~data.attr THEN [pl EXCEPT !.fehler = "KeyError"]
       ELSE IF ~Wahr(ziel.angekommen) /\ \E n \in pred : ~pl.zgN[n].attr
       THEN [pl EXCEPT !.fehler = "KeyError"]
       ELSE Dann(abfahrt(ankunft),
                 LAMBDA pl3 : [pl3 EXCEPT !.zgN[node].v_ab = Ziel(pl3, z).verspaetung_ab])

\* the body of the loop of verspaetungen_korrigieren for one node
korrigiere_knoten(pl, node) ==
    LET data == pl.zgN[node]
        z == data.obj
        ziel == Ziel(pl, z)
        zug == pl.zug[z[1]]
        pred == Vorgaenger(pl, node)
        v == {pl.zgN[n].v_ab : n \in pred}
        vomZug == ziel.einfahrt \/ zug.plangleis = ziel.plan \/ pred = {}
        v_an == IF Wahr(ziel.angekommen) THEN ziel.verspaetung_an
                ELSE MaxVon(IF vomZug THEN v \cup {zug.verspaetung} ELSE v)
        \* ziel.verspaetung_an = zug.verspaetung and data['v_an'] = v_an
        ankunft == [pl EXCEPT !.zug[z[1]].fahrplan[z[2] + 1].verspaetung_an =
                                 IF ~Wahr(ziel.angekommen) /\ vomZug THEN zug.verspaetung ELSE @,
                              !.zgN[node].v_an = v_an]
        \* ziel.verspaetung_ab of a row that has not departed
        abfahrt(pl2) ==
            IF Wahr(ziel.abgefahren) THEN pl2
            ELSE IF ziel.fdl_korrektur # KeineKorrektur \/ ziel.auto_korrektur # KeineKorrektur
            THEN anwenden(pl2, IF ziel.fdl_korrektur # KeineKorrektur THEN ziel.fdl_korrektur
                               ELSE ziel.auto_korrektur, z)
            ELSE [pl2 EXCEPT !.zug[z[1]].fahrplan[z[2] + 1].verspaetung_ab =
                                Ziel(pl2, z).verspaetung_an]
    IN IF ~data.attr THEN [pl EXCEPT !.fehler = "KeyError"]
       ELSE IF ~Wahr(ziel.angekommen) /\ \E n \in pred : ~pl.zgN[n].attr
       THEN [pl EXCEPT !.fehler = "KeyError"]
       ELSE Dann(abfahrt(ankunft),
                 LAMBDA pl3 : [pl3 EXCEPT !.zgN[node].v_ab = Ziel(pl3, z).verspaetung_ab])

\* the loop of verspaetungen_korrigieren: takes the nodes the generator
\* zielsortierung still holds, one after the other
korrigieren(pl) ==
    IF pl.fehler # "" \/ pl.zielsortierung.rest = <<>> THEN pl
    ELSE IF Head(pl.zielsortierung.rest) = Unfeasible
    THEN [pl EXCEPT !.zielsortierung.rest = Tail(@), !.fehler = "NetworkXUnfeasible"]
    ELSE korrigieren(korrigiere_knoten([pl EXCEPT !.zielsortierung.rest = Tail(@)],
                                       Head(pl.zielsortierung.rest)))

\* the orders the generator zielsortierung can produce for the zielgraph
Zielsortierungen(pl) == topological_sort(DOMAIN pl.zgN, pl.zgE, Unfeasible)

\* zugverspaetung_korrigieren if the nested call started the order of the
\* nodes from its beginning, as the iteration of a list does
zugverspaetung_korrigieren_von_vorn(pl) ==
    IF pl.fehler # "" THEN pl
    ELSE IF pl.tiefe >= MaxTiefe THEN [pl EXCEPT !.fehler = "RecursionError"]
    ELSE [korrigieren([pl EXCEPT !.tiefe = @ + 1,
                                 !.zielsortierung.rest = CHOOSE s \in Zielsortierungen(pl) : TRUE])
            EXCEPT !.tiefe = pl.tiefe]

\* zugverspaetung_korrigieren: calls verspaetungen_korrigieren from inside
\* the running sweep, one call deeper; the call goes on with the nodes the
\* generator zielsortierung still holds
zugverspaetung_korrigieren(pl) ==
    IF pl.fehler # "" THEN pl
    ELSE IF pl.tiefe >= MaxTiefe THEN [pl EXCEPT !.fehler = "RecursionError"]
    ELSE [korrigieren([pl EXCEPT !.tiefe = @ + 1]) EXCEPT !.tiefe = pl.tiefe]

\* verspaetungen_korrigieren; sortierung is the order the generator
\* produces when this call is the first to take a node from it
verspaetungen_korrigieren(pl, sortierung) ==
    korrigieren([pl EXCEPT !.fehler = "",
                           !.zielsortierung = IF @.neu THEN [neu |-> FALSE, rest |-> sortierung]
                                              ELSE @])

(***************************************************************************)
(* Planung: dispatcher corrections                                         *)
(***************************************************************************)
\* fdl_korrektur_setzen(korrektur, ziel) for the row z
fdl_korrektur_setzen(pl, korrektur, z) ==
    LET zug == pl.zug[z[1]]
        ziel_index == find_fahrplan_index(zug.fahrplan, Ziel(pl, z).plan)
        pl1 == SetzeZiel([pl EXCEPT !.fehler = ""], z,
                         [Ziel(pl, z) EXCEPT !.fdl_korrektur = korrektur])
    IN IF korrektur # KeineKorrektur
       THEN [pl1 EXCEPT !.zug[z[1]].fahrplan =
                [n \in 1 .. Len(zug.fahrplan) |->
                    IF n - 1 >= ziel_index + 1
                    THEN [pl1.zug[z[1]].fahrplan[n] EXCEPT !.fdl_korrektur = KeineKorrektur]
                    ELSE pl1.zug[z[1]].fahrplan[n]]]
       ELSE pl1

(***************************************************************************)
(* Planung: events                                                         *)
(***************************************************************************)
Ereignis(art, zid, plangleis, zeit, verspaetung, amgleis) ==
    [art |-> art, zid |-> zid, plangleis |-> plangleis, zeit |-> zeit,
     verspaetung |-> verspaetung, amgleis |-> amgleis]

\* ereignis_uebernehmen without the test of the ausfahrt flag of the last row
ereignis_uebernehmen_ohne_ausfahrtpruefung(pl0, ereignis) ==
    LET pl == [pl0 EXCEPT !.fehler = ""]
        zid == ereignis.zid
        zug == pl.zug[zid]
        n == Len(zug.fahrplan)
        alter_index == zug.ziel_index
        alt == IF alter_index >= 0 THEN alter_index + 1 ELSE n + alter_index + 1
        altes_ziel == zug.fahrplan[alt]
        neuer_index == IF ereignis.plangleis # ""
                       THEN find_fahrplan_index(zug.fahrplan, ereignis.plangleis)
                       ELSE n - 1
        neues_ziel == zug.fahrplan[neuer_index + 1]
        zeit == time_to_minutes(ereignis.zeit)
        einfahrt == zug.fahrplan[1]
        ausfahrt == zug.fahrplan[n]
        vorher == SliceBis(zug.fahrplan, alter_index)
    IN IF ~HatObj(pl, zid) THEN pl
       ELSE IF alter_index = KeinIndex THEN [pl EXCEPT !.fehler = "TypeError"]
       ELSE IF ~IndexOk(zug.fahrplan, alter_index) THEN pl
       ELSE IF neuer_index = KeinIndex THEN pl
       ELSE IF neuer_index < alter_index THEN pl
       ELSE CASE ereignis.art = "einfahrt" ->
                    IF ~einfahrt.einfahrt THEN pl
                    ELSE IF ~HatZeit(einfahrt.ab) THEN [pl EXCEPT !.fehler = "AttributeError"]
                    ELSE [pl EXCEPT !.zug[zid].fahrplan[1] =
                             [einfahrt EXCEPT !.verspaetung_ab = zeit - time_to_minutes(einfahrt.ab),
                                              !.angekommen = zeit, !.abgefahren = zeit]]
              [] ereignis.art = "ausfahrt" ->
                         [pl EXCEPT !.zug[zid].ausgefahren = TRUE,
                                    !.zug[zid].fahrplan[n] =
                             [ausfahrt EXCEPT !.verspaetung_an = ereignis.verspaetung,
                                              !.verspaetung_ab = ereignis.verspaetung,
                                              !.angekommen = zeit, !.abgefahren = zeit]]
              [] ereignis.art = "ankunft" ->
                    IF ~HatZeit(altes_ziel.an) THEN [pl EXCEPT !.fehler = "AttributeError"]
                    ELSE LET v == zeit - time_to_minutes(altes_ziel.an)
                             an == [altes_ziel EXCEPT !.verspaetung_an = v, !.angekommen = zeit]
                             durch == IF durchfahrt(altes_ziel)
                                      THEN [an EXCEPT !.verspaetung_ab = v, !.abgefahren = zeit]
                                      ELSE an
                             f1 == [zug.fahrplan EXCEPT ![alt] = durch]
                         IN [pl EXCEPT !.zug[zid].fahrplan =
                               [k \in 1 .. n |->
                                  IF (k - 1) \in vorher
                                  THEN [f1[k] EXCEPT !.angekommen = OderJa(@),
                                                     !.abgefahren = OderJa(@)]
                                  ELSE f1[k]]]
              [] ereignis.art = "abfahrt" ->
                    IF ereignis.amgleis
                    THEN IF ereignis.verspaetung > 0
                         THEN [pl EXCEPT !.zug[zid].fahrplan[alt].auto_korrektur =
                                            Signalhalt(ereignis.verspaetung)]
                         ELSE pl
                    ELSE [pl EXCEPT !.zug[zid].fahrplan[alt] =
                             [altes_ziel EXCEPT !.verspaetung_ab = ereignis.verspaetung,
                                                !.abgefahren = zeit]]
              [] ereignis.art \in {"rothalt", "wurdegruen"} ->
                    [pl EXCEPT !.zug[zid].verspaetung = ereignis.verspaetung,
                               !.zug[zid].fahrplan[neuer_index + 1].verspaetung_an =
                                   ereignis.verspaetung]
              [] OTHER -> pl

\* ereignis_uebernehmen
ereignis_uebernehmen(pl0, ereignis) ==
    LET pl == [pl0 EXCEPT !.fehler = ""]
        zid == ereignis.zid
        zug == pl.zug[zid]
        n == Len(zug.fahrplan)
        alter_index == zug.ziel_index
        alt == IF alter_index >= 0 THEN alter_index + 1 ELSE n + alter_index + 1
        altes_ziel == zug.fahrplan[alt]
        neuer_index == IF ereignis.plangleis # ""
                       THEN find_fahrplan_index(zug.fahrplan, ereignis.plangleis)
                       ELSE n - 1
        neues_ziel == zug.fahrplan[neuer_index + 1]
        zeit == time_to_minutes(ereignis.zeit)
        einfahrt == zug.fahrplan[1]
        ausfahrt == zug.fahrplan[n]
        vorher == SliceBis(zug.fahrplan, alter_index)
    IN IF ~HatObj(pl, zid) THEN pl
       ELSE IF alter_index = KeinIndex THEN [pl EXCEPT !.fehler = "TypeError"]
       ELSE IF ~IndexOk(zug.fahrplan, alter_index) THEN pl
       ELSE IF neuer_index = KeinIndex THEN pl
       ELSE IF neuer_index < alter_index THEN pl
       ELSE CASE ereignis.art = "einfahrt" ->
                    IF ~einfahrt.einfahrt THEN pl
                    ELSE IF ~HatZeit(einfahrt.ab) THEN [pl EXCEPT !.fehler = "AttributeError"]
                    ELSE [pl EXCEPT !.zug[zid].fahrplan[1] =
                             [einfahrt EXCEPT !.verspaetung_ab = zeit - time_to_minutes(einfahrt.ab),
                                              !.angekommen = zeit, !.abgefahren = zeit]]
              [] ereignis.art = "ausfahrt" ->
                    IF ~ausfahrt.ausfahrt THEN pl
                    ELSE [pl EXCEPT !.zug[zid].ausgefahren = TRUE,
                                    !.zug[zid].fahrplan[n] =
                             [ausfahrt EXCEPT !.verspaetung_an = ereignis.verspaetung,
                                              !.verspaetung_ab = ereignis.verspaetung,
                                              !.angekommen = zeit, !.abgefahren = zeit]]
              [] ereignis.art = "ankunft" ->
                    IF ~HatZeit(altes_ziel.an) THEN [pl EXCEPT !.fehler = "AttributeError"]
                    ELSE LET v == zeit - time_to_minutes(altes_ziel.an)
                             an == [altes_ziel EXCEPT !.verspaetung_an = v, !.angekommen = zeit]
                             durch == IF durchfahrt(altes_ziel)
                                      THEN [an EXCEPT !.verspaetung_ab = v, !.abgefahren = zeit]
                                      ELSE an
                             f1 == [zug.fahrplan EXCEPT ![alt] = durch]
                         IN [pl EXCEPT !.zug[zid].fahrplan =
                               [k \in 1 .. n |->
                                  IF (k - 1) \in vorher
                                  THEN [f1[k] EXCEPT !.angekommen = OderJa(@),
                                                     !.abgefahren = OderJa(@)]
                                  ELSE f1[k]]]
              [] ereignis.art = "abfahrt" ->
                    IF ereignis.amgleis
                    THEN IF ereignis.verspaetung > 0
                         THEN [pl EXCEPT !.zug[zid].fahrplan[alt].auto_korrektur =
                                            Signalhalt(ereignis.verspaetung)]
                         ELSE pl
                    ELSE [pl EXCEPT !.zug[zid].fahrplan[alt] =
                             [altes_ziel EXCEPT !.verspaetung_ab = ereignis.verspaetung,
                                                !.abgefahren = zeit]]
              [] ereignis.art \in {"rothalt", "wurdegruen"} ->
                    [pl EXCEPT !.zug[zid].verspaetung = ereignis.verspaetung,
                               !.zug[zid].fahrplan[neuer_index + 1].verspaetung_an =
                                   ereignis.verspaetung]
              [] OTHER -> pl

(***************************************************************************)
(* The simulator: timetables and the inputs of the operations              *)
(***************************************************************************)
\* the trains of the simulator; zid 3 is a train it never delivers
Zids == {1, 2}
Fremd == CHOOSE n \in 1 .. 3 : n \notin Zids

\* a train that enters at X, holds at gl and leaves at Y
Pendel(gl, ab, flag) == SimZug("X", "Y", <<SimZeile(gl, Uhr(10, 0), ab, flag)>>)
\* a train that enters at X and ends at gl
Endend(gl, flag) == SimZug("X", "", <<SimZeile(gl, Uhr(10, 0), Uhr(10, 2), flag)>>)
\* a train that begins at gl and leaves at Y
Beginnend(gl, an, flag) == SimZug("Gleis " \o gl, "Y", <<SimZeile(gl, an, Uhr(10, 6), flag)>>)

Szenarien ==
    { <<Pendel("A", Uhr(10, 2), KeinFlag), Pendel("B", Uhr(10, 2), Flag("R", 0))>>,
      <<Endend("A", Flag("E", 2)), Beginnend("A", Uhr(10, 4), KeinFlag)>>,
      <<Endend("A", Flag("E", 2)), Beginnend("A", Uhr(10, 1), KeinFlag)>>,
      <<Endend("A", Flag("K", 2)), Pendel("A", Uhr(10, 5), KeinFlag)>>,
      <<Pendel("A", Uhr(10, 3), Flag("F", 2)), Beginnend("A", Uhr(10, 0), KeinFlag)>>,
      <<Endend("A", Flag("E", 2)), Beginnend("A", Uhr(10, 4), Flag("E", 1))>>,
      <<Endend("A", Flag("E", Fremd)), Pendel("B", Uhr(10, 2), KeinFlag)>>,
      <<SimZug("X", "X", <<SimZeile("A", Uhr(10, 0), Uhr(10, 2), KeinFlag)>>),
        Beginnend("B", KeineZeit, Flag("D", 0))>> }

\* ZugDetails of train zid as the simulator reports it: not yet visible
\* (sichtbar = FALSE) or standing at its first track
SimZugDetails(zid, sichtbar, v) ==
    [zid |-> zid, von |-> sim[zid].von, nach |-> sim[zid].nach,
     fahrplan |-> sim[zid].fahrplan,
     sichtbar |-> sichtbar, amgleis |-> sichtbar, verspaetung |-> v,
     gleis |-> sim[zid].fahrplan[1].plan, plangleis |-> sim[zid].fahrplan[1].plan]

\* ZugDetails of a train with an exit that has left its last track and is
\* on its way out: visible, no planned track any more
SimZugAusfahrend(zid) ==
    [SimZugDetails(zid, TRUE, 0) EXCEPT !.amgleis = FALSE, !.gleis = "", !.plangleis = ""]

\* the snapshots: every train is absent, announced on time or late,
\* standing late at its first track, or on its way to its exit
Meldungen(zid) ==
    {<<>>, <<SimZugDetails(zid, FALSE, 0)>>, <<SimZugDetails(zid, FALSE, MaxVerspaetung)>>,
     <<SimZugDetails(zid, TRUE, MaxVerspaetung)>>}
    \cup (IF sim[zid].nach # "" THEN {<<SimZugAusfahrend(zid)>>} ELSE {})
Snapshots == {a \o b : a \in Meldungen(1), b \in Meldungen(2)}

\* all rows <<zid, i>> of the known trains
AlleZiele(pl) == {<<zid, i>> : zid \in DOMAIN pl.zug, i \in 0 .. 2}
                 \cap UNION {{<<zid, i>> : i \in Indizes(pl.zug[zid].fahrplan)} : zid \in DOMAIN pl.zug}
\* the rows that are holds
Halte(pl) == {z \in AlleZiele(pl) : ~Ziel(pl, z).einfahrt /\ ~Ziel(pl, z).ausfahrt}

\* the corrections the dispatcher sets on the row z: none, a fixed (early)
\* departure, or waiting for a stop of another train
FdlKorrekturen(pl, z) ==
    {KeineKorrektur, FesteVerspaetung(0 - MaxVerspaetung)}
    \cup {AnkunftAbwarten(u, 1) : u \in {h \in Halte(pl) : h[1] # z[1]}}
    \cup {AbfahrtAbwarten(u, 1) : u \in {h \in Halte(pl) : h[1] # z[1]}}

\* the events of the simulator: for every train the events at its first
\* track and its exit, an event at a track it has passed (X) and one at a
\* track it never visits (Q); and an event of a train nobody knows
Ereigniszeit == Uhr(10, 1)
Ereignisse ==
    UNION {LET gl == sim[zid].fahrplan[1].plan
               e(art, g, v, amgleis) == Ereignis(art, zid, g, Ereigniszeit, v, amgleis)
           IN {e("einfahrt", gl, MaxVerspaetung, FALSE),
               e("ankunft", gl, MaxVerspaetung, TRUE),
               e("abfahrt", gl, MaxVerspaetung, FALSE),
               e("abfahrt", gl, MaxVerspaetung, TRUE),
               e("abfahrt", gl, 0, TRUE),
               e("rothalt", gl, MaxVerspaetung, FALSE),
               e("wurdegruen", gl, MaxVerspaetung, FALSE),
               e("ausfahrt", "", MaxVerspaetung, FALSE),
               e("ankunft", "X", MaxVerspaetung, FALSE),
               e("ankunft", "Q", MaxVerspaetung, FALSE)} : zid \in Zids}
    \cup {Ereignis("ankunft", Fremd, "A", Ereigniszeit, 0, TRUE)}

(***************************************************************************)
(* Actions                                                                 *)
(***************************************************************************)
\* the number of operations so far
Anzahl == zaehler.ueb + zaehler.erg + zaehler.fdl + zaehler.korr

Init ==
    /\ sim \in Szenarien
    /\ p = PlanungInit
    /\ letzte = "init"
    /\ zaehler = [ueb |-> 0, erg |-> 0, fdl |-> 0, korr |-> 0]

\* zuege_uebernehmen(snapshot), then the caller sets the clock
ZuegeUebernehmen ==
    /\ Anzahl < MaxOps /\ zaehler.ueb < MaxUebernahmen
    /\ \E zuege \in Snapshots :
         \E sortierung \in Zugsortierungen(zuege_vorbereiten(p, zuege)) :
            \E pl \in {zuege_uebernehmen(p, zuege, sortierung)} :
               /\ p' = IF pl.fehler = ""
                       THEN [pl EXCEPT !.simzeit_minuten = time_to_minutes(Uhr(10, 2 + Anzahl))]
                       ELSE pl
               /\ letzte' = "zuege_uebernehmen"
    /\ zaehler' = [zaehler EXCEPT !.ueb = @ + 1]
    /\ UNCHANGED sim

EreignisUebernehmen ==
    /\ Anzahl < MaxOps /\ zaehler.erg < MaxEreignisse
    /\ \E ereignis \in Ereignisse :
         /\ p' = ereignis_uebernehmen(p, ereignis)
         /\ letzte' = "ereignis_uebernehmen"
    /\ zaehler' = [zaehler EXCEPT !.erg = @ + 1]
    /\ UNCHANGED sim

FdlKorrekturSetzen ==
    /\ Anzahl < MaxOps /\ zaehler.fdl < MaxFdl
    /\ \E z \in AlleZiele(p) : \E korrektur \in FdlKorrekturen(p, z) :
         /\ p' = fdl_korrektur_setzen(p, korrektur, z)
         /\ letzte' = "fdl_korrektur_setzen"
    /\ zaehler' = [zaehler EXCEPT !.fdl = @ + 1]
    /\ UNCHANGED sim

VerspaetungenKorrigieren ==
    /\ Anzahl < MaxOps
    /\ \E sortierung \in (IF p.zielsortierung.neu THEN Zielsortierungen(p) ELSE {<<>>}) :
         /\ p' = verspaetungen_korrigieren(p, sortierung)
         /\ letzte' = "verspaetungen_korrigieren"
    /\ zaehler' = [zaehler EXCEPT !.korr = @ + 1]
    /\ UNCHANGED sim

Next ==
    \/ ZuegeUebernehmen
    \/ EreignisUebernehmen
    \/ FdlKorrekturSetzen
    \/ VerspaetungenKorrigieren

Spec == Init /\ [][Next]_vars

(***************************************************************************)
(* The loop of Kupplung.anwenden, one iteration at a time.  p holds the    *)
(* locals kuppel_an and plan_an, which are computed once before the loop,  *)
(* ziel.verspaetung_an with its value at the start (anfang), and the       *)
(* number of iterations made; letzte is the position of the control.       *)
(***************************************************************************)
\* the arrival minutes of the partner (0: the except branch) and the
\* planned arrivals and arrival delays of the row
Kuppelzeiten == {0} \cup (time_to_minutes(Uhr(9, 55)) .. time_to_minutes(Uhr(10, 5)))
Planzeiten == {0, 1} \cup (time_to_minutes(Uhr(9, 59)) .. time_to_minutes(Uhr(10, 1)))
Anfangswerte == (0 - MaxVerspaetung) .. MaxVerspaetung

InitSchleife ==
    /\ sim = <<>>
    /\ zaehler = [ueb |-> 0, erg |-> 0, fdl |-> 0, korr |-> 0]
    /\ letzte = "while"
    /\ \E kuppel_an \in Kuppelzeiten, plan_an \in Planzeiten, v_an \in Anfangswerte :
          p = [kuppel_an |-> kuppel_an, plan_an |-> plan_an,
               verspaetung_an |-> v_an, anfang |-> v_an, erhoehungen |-> 0]

\* while ...: ziel.verspaetung_an += 1
SchleifeErhoehen ==
    /\ letzte = "while"
    /\ kuppel_bedingung(p.kuppel_an, p.plan_an, p.verspaetung_an)
    /\ p' = [p EXCEPT !.verspaetung_an = @ + 1, !.erhoehungen = @ + 1]
    /\ UNCHANGED <<sim, letzte, zaehler>>

\* the condition is false: control leaves the loop
SchleifeVerlassen ==
    /\ letzte = "while"
    /\ ~kuppel_bedingung(p.kuppel_an, p.plan_an, p.verspaetung_an)
    /\ letzte' = "ankunft"
    /\ UNCHANGED <<sim, p, zaehler>>

NextSchleife ==
    \/ SchleifeErhoehen
    \/ SchleifeVerlassen

\* the interpreter keeps executing the loop
SpecSchleife == InitSchleife /\ [][NextSchleife]_vars /\ WF_vars(NextSchleife)

(***************************************************************************)
(* Properties                                                              *)
(***************************************************************************)
\* the nodes reachable from the nodes S along the edges E (one step or more)
RECURSIVE Nachfolger(_, _)
Nachfolger(S, E) ==
    LET T == S \cup {e.nach : e \in {x \in E : x.von \in S}}
    IN IF T = S THEN S ELSE Nachfolger(T, E)
Azyklisch(E) == \A e \in E : e.von \notin Nachfolger({e.nach}, E)

\* the operation just executed
Ingestiert == letzte = "zuege_uebernehmen"
Gesetzt == letzte = "fdl_korrektur_setzen"
Korrigiert == letzte = "verspaetungen_korrigieren"

\* C1: after every ingestion that returned normally, whatever ingestions and
\* dispatcher overrides preceded it, the target graph (zielgraph) has no
\* cycle: no edge that closes a cycle has been added
C1_ZielgraphAzyklisch ==
    (Ingestiert /\ p.fehler = "") => Azyklisch(p.zgE)

\* C2: after every ingestion the train graph (zugbaum) has no cycle,
\* whatever peers the rows name
C2_ZugbaumAzyklisch ==
    Ingestiert => Azyklisch(p.zbE)

\* the row a node of the zielgraph belongs to, and the train of a row
Knotenziel(pl, n) == Ziel(pl, pl.zgN[n].obj)
Zug(pl, z) == pl.zug[z[1]]
\* the delays a sweep computes: of the trains, the rows and the nodes
Verspaetungsbild(pl) ==
    [zug |-> [zid \in DOMAIN pl.zug |->
                <<pl.zug[zid].verspaetung,
                  [i \in 1 .. Len(pl.zug[zid].fahrplan) |->
                     <<pl.zug[zid].fahrplan[i].verspaetung_an,
                       pl.zug[zid].fahrplan[i].verspaetung_ab>>]>>],
     knoten |-> [n \in DOMAIN pl.zgN |-> <<pl.zgN[n].v_an, pl.zgN[n].v_ab>>]]

\* C3: after the first sweep that follows the ingestions, every row that
\* has not arrived has arrival_delay, and its node v_arr, equal to the
\* maximum of v_dep over the predecessor nodes, the train's delay included
\* when the row is an entry, the train's planned row or without predecessor
C3_AnkunftIstMaximum ==
    (Korrigiert /\ p.fehler = "" /\ zaehler.korr = 1) =>
        \A n \in DOMAIN p.zgN :
            (p.zgN[n].attr /\ ~Wahr(Knotenziel(p, n).angekommen)) =>
                LET ziel == Knotenziel(p, n)
                    zug == Zug(p, p.zgN[n].obj)
                    pred == Vorgaenger(p, n)
                    v == {p.zgN[m].v_ab : m \in pred}
                       \cup (IF ziel.einfahrt \/ zug.plangleis = ziel.plan \/ pred = {}
                             THEN {zug.verspaetung} ELSE {})
                IN /\ p.zgN[n].v_an = MaxVon(v)
                   /\ ziel.verspaetung_an = MaxVon(v)

\* the nodes a sweep from pl to pl2 has taken from the sort order
Bearbeitet(pl, pl2) ==
    (IF pl.zielsortierung.neu THEN DOMAIN pl.zgN ELSE SeqSet(pl.zielsortierung.rest))
    \ SeqSet(pl2.zielsortierung.rest)

\* C4: every sweep that returns, the first after an ingestion and every
\* later one, processes every node of the zielgraph
C4_JederKnotenJedesMal ==
    [][(letzte' = "verspaetungen_korrigieren" /\ p'.fehler = "")
         => Bearbeitet(p, p') = DOMAIN p.zgN]_vars

\* C5: a sweep that directly follows a sweep changes no delay of a train,
\* a row or a node
C5_Idempotent ==
    [][(Korrigiert /\ letzte' = "verspaetungen_korrigieren")
         => Verspaetungsbild(p') = Verspaetungsbild(p)]_vars

\* the departure delay that the manual correction of the row z prescribes
\* from the arrival delay of the row and the state of the origin row
Vorschrift(pl, z) ==
    LET ziel == Ziel(pl, z)
        c == ziel.fdl_korrektur
        p_a == time_to_minutes(ziel.an)
        p_d == time_to_minutes(ziel.ab)
        a == p_a + ziel.verspaetung_an
        dwell == Max(p_d - a, ziel.mindestaufenthalt)
        u == Ziel(pl, c.ursprung)
        frueh == IF c.typ = "Ankunft"
                 THEN time_to_minutes(u.an) + u.verspaetung_an + c.wartezeit
                 ELSE time_to_minutes(u.ab) + u.verspaetung_ab + c.wartezeit
    IN IF c.typ = "Fix" THEN c.verspaetung
       ELSE Max(a + dwell, frueh) - p_d

\* C6: after a dispatcher override followed by a sweep (the first sweep
\* after the ingestion, the trains having no peer links), every row that
\* carries a manual correction and has not departed has the departure delay
\* its manual correction prescribes from the row's arrival delay and the
\* state of the origin row
C6_FdlKorrekturWirkt ==
    [][(/\ Gesetzt /\ p.zbE = {} /\ p.zielsortierung.neu
        /\ letzte' = "verspaetungen_korrigieren" /\ p'.fehler = "") =>
         \A z \in AlleZiele(p') :
            (/\ Ziel(p', z).fdl_korrektur # KeineKorrektur
             /\ ~Wahr(Ziel(p', z).abgefahren)
             /\ HatZeit(Ziel(p', z).an) /\ HatZeit(Ziel(p', z).ab))
            => Ziel(p', z).verspaetung_ab = Vorschrift(p', z)]_vars

\* the effect of fdl_korrektur_setzen(korrektur, z) on the manual corrections
Rahmen(pl, pl2, korrektur, z) ==
    /\ Ziel(pl2, z).fdl_korrektur = korrektur
    /\ \A y \in AlleZiele(pl) :
          y # z =>
             Ziel(pl2, y).fdl_korrektur =
                IF korrektur # KeineKorrektur /\ y[1] = z[1] /\ y[2] > z[2]
                THEN KeineKorrektur
                ELSE Ziel(pl, y).fdl_korrektur

\* C7: fdl_korrektur_setzen with a correction sets it on the row, clears
\* the manual corrections of the later rows of the train and keeps all
\* others; with None it clears the correction of the row and keeps all others
C7_FdlKorrekturRahmen ==
    [][letzte' = "fdl_korrektur_setzen" =>
         \A z \in AlleZiele(p) : \A korrektur \in FdlKorrekturen(p, z) :
            p' = fdl_korrektur_setzen(p, korrektur, z) => Rahmen(p, p', korrektur, z)]_vars

\* C8: after a sweep every row that is no entry and has not departed keeps
\* its minimum dwell:
\* departure_delay >= arrival_delay - (planned dwell - min_dwell)
C8_Mindestaufenthalt ==
    (Korrigiert /\ p.fehler = "") =>
        \A z \in AlleZiele(p) :
            (/\ ~Ziel(p, z).einfahrt /\ ~Wahr(Ziel(p, z).abgefahren)
             /\ HatZeit(Ziel(p, z).an) /\ HatZeit(Ziel(p, z).ab))
            => Ziel(p, z).verspaetung_ab >=
                  Ziel(p, z).verspaetung_an
                  - (time_to_minutes(Ziel(p, z).ab) - time_to_minutes(Ziel(p, z).an)
                     - Ziel(p, z).mindestaufenthalt)

\* the rows of pl that have arrived at a recorded time
Zeitstempel(x) == x >= 0

\* C9: an ingestion leaves the arrival delay of every row unchanged whose
\* arrival time has been recorded
C9_AnkunftBleibtBeiUebernahme ==
    [][letzte' = "zuege_uebernehmen" =>
         \A z \in AlleZiele(p) :
            Zeitstempel(Ziel(p, z).angekommen) =>
               Ziel(p', z).verspaetung_an = Ziel(p, z).verspaetung_an]_vars

\* an ingestion has run over a row that had arrived, with a delay, at a
\* recorded time and whose train is reported again, now with another delay
C9_Zeuge ==
    /\ Ingestiert /\ p.fehler = ""
    /\ \E z \in AlleZiele(p) :
          /\ Zeitstempel(Ziel(p, z).angekommen)
          /\ Ziel(p, z).verspaetung_an > 0
          /\ Zug(p, z).sichtbar
          /\ Zug(p, z).verspaetung # Ziel(p, z).verspaetung_an

\* C10: a sweep leaves the arrival delay of every row unchanged that had
\* arrived before it, rows with a Kupplung correction and first rows of
\* trains split off included
C10_AnkunftBleibtBeimKorrigieren ==
    [][letzte' = "verspaetungen_korrigieren" =>
         \A z \in AlleZiele(p) :
            Wahr(Ziel(p, z).angekommen) =>
               Ziel(p', z).verspaetung_an = Ziel(p, z).verspaetung_an]_vars

\* the snapshots and sort orders whose ingestion leads from pl to pl2 (the
\* clock, which the caller sets afterwards, left aside)
OhneUhr(pl) == [pl EXCEPT !.simzeit_minuten = 0]
Bekannt(pl) == DOMAIN pl.zug
ZidsVon(zuege) == {zuege[k].zid : k \in 1 .. Len(zuege)}
Uebernommen(pl, pl2, zuege) ==
    \E sortierung \in Zugsortierungen(zuege_vorbereiten(pl, zuege)) :
        OhneUhr(pl2) = OhneUhr(zuege_uebernehmen(pl, zuege, sortierung))

\* C11: after an ingestion every train that was known before and is absent
\* from the snapshot, visible before or not, has ausgefahren set, is neither
\* visible nor at the platform, has an empty current track, and all its
\* rows are marked departed
C11_AbwesendeZuegeAusgefahren ==
    [][letzte' = "zuege_uebernehmen" =>
         \A zuege \in Snapshots :
            Uebernommen(p, p', zuege) =>
               \A zid \in Bekannt(p) \ ZidsVon(zuege) :
                  /\ p'.zug[zid].ausgefahren
                  /\ ~p'.zug[zid].sichtbar /\ ~p'.zug[zid].amgleis
                  /\ p'.zug[zid].gleis = ""
                  /\ \A i \in 1 .. Len(p'.zug[zid].fahrplan) :
                        Wahr(p'.zug[zid].fahrplan[i].abgefahren)]_vars

\* C12: no operation removes a known train or changes the number of its
\* rows: a zid that has a train keeps that train
C12_ZuegeBleiben ==
    [][\A zid \in Bekannt(p) :
          /\ zid \in Bekannt(p')
          /\ p'.zug[zid].zid = zid
          /\ p'.zug[zid].von = p.zug[zid].von /\ p'.zug[zid].nach = p.zug[zid].nach
          /\ Len(p'.zug[zid].fahrplan) = Len(p.zug[zid].fahrplan)]_vars

\* a train known from an earlier ingestion has been ingested again, now
\* visible, after it had been created with an entry row
C12_Zeuge ==
    /\ Ingestiert /\ zaehler.ueb = 2 /\ p.fehler = ""
    /\ \E zid \in Bekannt(p) :
          /\ p.zug[zid].sichtbar
          /\ p.zug[zid].fahrplan[1].einfahrt

\* the timetable structure of a train: per row seq_no, plan track, planned
\* times and flags
Fahrplanstruktur(zug) ==
    [i \in 1 .. Len(zug.fahrplan) |->
        <<zug.fahrplan[i].zielnr, zug.fahrplan[i].plan, zug.fahrplan[i].an,
          zug.fahrplan[i].ab, zug.fahrplan[i].flags>>]

\* C13: no operation changes the timetable structure of a known train: the
\* number of rows and each row's seq_no, plan track, planned arrival,
\* planned departure and flags; applying the Ersatzzug correction in a
\* sweep included
C13_FahrplanEingefroren ==
    [][\A zid \in Bekannt(p) :
          Fahrplanstruktur(p'.zug[zid]) = Fahrplanstruktur(p.zug[zid])]_vars

\* the row structure the first ingestion of the simulator train zid has to
\* produce: an entry row for an external origin, the rows of the
\* simulator, an exit row for an external destination
Extern(gleis) == gleis # "" /\ ~startswith_Gleis(gleis)
Sollstruktur(zid) ==
    LET f == sim[zid].fahrplan
        ein == IF Extern(sim[zid].von)
               THEN <<[plan |-> sim[zid].von, einfahrt |-> TRUE, ausfahrt |-> FALSE,
                       an |-> f[1].an, ab |-> f[1].an]>>
               ELSE <<>>
        mitte == [i \in 1 .. Len(f) |->
                    [plan |-> f[i].plan, einfahrt |-> FALSE, ausfahrt |-> FALSE,
                     an |-> f[i].an, ab |-> f[i].ab]]
        aus == IF Extern(sim[zid].nach)
               THEN <<[plan |-> sim[zid].nach, einfahrt |-> FALSE, ausfahrt |-> TRUE,
                       an |-> f[Len(f)].ab, ab |-> f[Len(f)].ab]>>
               ELSE <<>>
    IN ein \o mitte \o aus
Iststruktur(zug) ==
    [i \in 1 .. Len(zug.fahrplan) |->
        [plan |-> zug.fahrplan[i].plan, einfahrt |-> zug.fahrplan[i].einfahrt,
         ausfahrt |-> zug.fahrplan[i].ausfahrt,
         an |-> zug.fahrplan[i].an, ab |-> zug.fahrplan[i].ab]]

\* C14: the ingestion that creates a train gives it an entry row exactly
\* when its origin is external and an exit row exactly when its
\* destination is external, visible or not, and numbers the rows
\* seq_no = index * 1000
C14_EinUndAusfahrt ==
    [][letzte' = "zuege_uebernehmen" =>
         \A zid \in Bekannt(p') \ Bekannt(p) :
            /\ Iststruktur(p'.zug[zid]) = Sollstruktur(zid)
            /\ \A i \in 1 .. Len(p'.zug[zid].fahrplan) :
                  p'.zug[zid].fahrplan[i].zielnr = (i - 1) * 1000]_vars

\* the Planung object without the mark of the last exception
Objekt(pl) == [pl EXCEPT !.fehler = ""]
\* the position of a train: the Python index ziel_index as an index from 0
Position(zug) ==
    IF zug.ziel_index >= 0 THEN zug.ziel_index ELSE Len(zug.fahrplan) + zug.ziel_index
\* the event names no known train, no track of the train's itinerary, or a
\* track at an index before the train's position
Veraltet(pl, ereignis) ==
    /\ ereignis.zid \in Bekannt(pl)
    /\ ereignis.plangleis # ""
    /\ find_fahrplan_index(pl.zug[ereignis.zid].fahrplan, ereignis.plangleis) # KeinIndex
    /\ find_fahrplan_index(pl.zug[ereignis.zid].fahrplan, ereignis.plangleis)
          < Position(pl.zug[ereignis.zid])
Verworfen(pl, ereignis) ==
    \/ ereignis.zid \notin Bekannt(pl)
    \/ /\ ereignis.plangleis # ""
       /\ find_fahrplan_index(pl.zug[ereignis.zid].fahrplan, ereignis.plangleis) = KeinIndex
    \/ Veraltet(pl, ereignis)

\* C15: an event of an unknown train, at a track that is not in the
\* itinerary, or at a track before the position of the train is dropped:
\* ereignis_uebernehmen changes no field of any row or train
C15_EreignisVerworfen ==
    [][letzte' = "ereignis_uebernehmen" =>
         \A ereignis \in Ereignisse :
            (p' = ereignis_uebernehmen(p, ereignis) /\ Verworfen(p, ereignis))
               => Objekt(p') = Objekt(p)]_vars

\* the event is accepted: its train is known, has a current row, and the
\* event is not dropped
Angenommen(pl, ereignis) ==
    /\ ereignis.zid \in Bekannt(pl)
    /\ pl.zug[ereignis.zid].ziel_index # KeinIndex
    /\ IndexOk(pl.zug[ereignis.zid].fahrplan, pl.zug[ereignis.zid].ziel_index)
    /\ ~Verworfen(pl, ereignis)
\* the current row of the train of the event
Aktuell(pl, ereignis) ==
    Elem(pl.zug[ereignis.zid].fahrplan, pl.zug[ereignis.zid].ziel_index)

\* C16: an accepted departure event with amgleis and a delay > 0 installs
\* Signalhalt(delay) as automatic correction of the current row and does
\* not mark it departed; every other accepted departure event sets the
\* departure delay of the current row to the delay of the event and marks
\* the row departed at the time of the event
C16_Abfahrt ==
    [][letzte' = "ereignis_uebernehmen" =>
         \A ereignis \in {e \in Ereignisse : e.art = "abfahrt"} :
            (p' = ereignis_uebernehmen(p, ereignis) /\ Angenommen(p, ereignis)) =>
               IF ereignis.amgleis /\ ereignis.verspaetung > 0
               THEN /\ Aktuell(p', ereignis).auto_korrektur = Signalhalt(ereignis.verspaetung)
                    /\ Aktuell(p', ereignis).abgefahren = Aktuell(p, ereignis).abgefahren
               ELSE /\ Aktuell(p', ereignis).verspaetung_ab = ereignis.verspaetung
                    /\ Aktuell(p', ereignis).abgefahren = time_to_minutes(ereignis.zeit)]_vars

\* the rows strictly before the current row of a train
Vorher(zug) == SliceBis(zug.fahrplan, zug.ziel_index)

\* C17: an accepted arrival event marks the current row arrived at the time
\* of the event with arrival delay = time of the event - planned arrival,
\* and marks every row strictly before the current row arrived and
\* departed, leaving the timestamps these rows already have unchanged
C17_Ankunft ==
    [][letzte' = "ereignis_uebernehmen" =>
         \A ereignis \in {e \in Ereignisse : e.art = "ankunft"} :
            (p' = ereignis_uebernehmen(p, ereignis) /\ Angenommen(p, ereignis)) =>
               /\ Aktuell(p', ereignis).angekommen = time_to_minutes(ereignis.zeit)
               /\ HatZeit(Aktuell(p, ereignis).an)
               /\ Aktuell(p', ereignis).verspaetung_an =
                     time_to_minutes(ereignis.zeit) - time_to_minutes(Aktuell(p, ereignis).an)
               /\ \A i \in Vorher(p.zug[ereignis.zid]) :
                     LET alt == p.zug[ereignis.zid].fahrplan[i + 1]
                         neu == p'.zug[ereignis.zid].fahrplan[i + 1]
                     IN /\ Wahr(neu.angekommen) /\ Wahr(neu.abgefahren)
                        /\ Wahr(alt.angekommen) => neu.angekommen = alt.angekommen
                        /\ Wahr(alt.abgefahren) => neu.abgefahren = alt.abgefahren]_vars

\* the last row of the train of the event
Letzte(pl, ereignis) ==
    pl.zug[ereignis.zid].fahrplan[Len(pl.zug[ereignis.zid].fahrplan)]

\* C18: an exit event of a train whose last row is marked exit sets the
\* arrival and the departure delay of that row to the delay of the event,
\* marks the row arrived and departed and sets ausgefahren; an exit event
\* of a train whose last row is not marked exit changes no row and does not
\* set ausgefahren
C18_Ausfahrt ==
    [][letzte' = "ereignis_uebernehmen" =>
         \A ereignis \in {e \in Ereignisse : e.art = "ausfahrt"} :
            (/\ p' = ereignis_uebernehmen(p, ereignis)
             /\ ereignis.zid \in Bekannt(p)
             /\ Len(p.zug[ereignis.zid].fahrplan) > 0) =>
               IF Letzte(p, ereignis).ausfahrt
               THEN /\ Letzte(p', ereignis).verspaetung_an = ereignis.verspaetung
                    /\ Letzte(p', ereignis).verspaetung_ab = ereignis.verspaetung
                    /\ Wahr(Letzte(p', ereignis).angekommen)
                    /\ Wahr(Letzte(p', ereignis).abgefahren)
                    /\ p'.zug[ereignis.zid].ausgefahren
               ELSE /\ p'.zug[ereignis.zid].fahrplan = p.zug[ereignis.zid].fahrplan
                    /\ p'.zug[ereignis.zid].ausgefahren = p.zug[ereignis.zid].ausgefahren]_vars

\* an exit event has marked the exit row of a train that is still at its
\* first row
C18_Zeuge ==
    /\ letzte = "ereignis_uebernehmen"
    /\ p.fehler = ""
    /\ \E zid \in Bekannt(p) :
          LET zug == p.zug[zid]
              ziel == zug.fahrplan[Len(zug.fahrplan)]
          IN /\ Len(zug.fahrplan) >= 2
             /\ zug.ziel_index = 0
             /\ ziel.ausfahrt
             /\ zug.ausgefahren
             /\ ziel.verspaetung_an = MaxVerspaetung
             /\ ziel.verspaetung_ab = MaxVerspaetung
             /\ ziel.angekommen = time_to_minutes(Ereigniszeit)
             /\ ziel.abgefahren = time_to_minutes(Ereigniszeit)

\* the peer train a row names with its E, K or F flag, 0 if none
Partner(ziel) == ersatz_zid(ziel) + kuppel_zid(ziel) + fluegel_zid(ziel)
\* the index of the row of the peer that the row ziel wires to: the first
\* row (E, F) or the row at the plan track of ziel (K)
Partnerzeile(pl, ziel) ==
    IF kuppel_zid(ziel) # 0
    THEN find_fahrplan_index(pl.zug[Partner(ziel)].fahrplan, ziel.plan)
    ELSE IF Len(pl.zug[Partner(ziel)].fahrplan) > 0 THEN 0 ELSE KeinIndex
\* the correction the peer's row receives
Anschluss(ziel, z) ==
    IF fluegel_zid(ziel) # 0 THEN AbfahrtAbwarten(z, 2) ELSE AnkunftAbwarten(z, 0)
\* some row waits for the row z by automatic correction
Verdrahtet(pl, z) ==
    \E u \in AlleZiele(pl) :
        /\ Ziel(pl, u).auto_korrektur.typ \in {"Ankunft", "Abfahrt"}
        /\ Ziel(pl, u).auto_korrektur.ursprung = z

\* C19: after an ingestion, a row that names an E, K or F peer that is not
\* known is not wired (no row waits for it) and its train is not marked
\* korrekturen_definiert; at the first later ingestion that brings the
\* peer, the peer's target row carries AnkunftAbwarten (E, K) or
\* AbfahrtAbwarten (F) with the naming row as origin
C19_PartnerSpaeter ==
    [][letzte' = "zuege_uebernehmen" =>
         \A z \in AlleZiele(p') :
            Partner(Ziel(p', z)) # 0 =>
               /\ Partner(Ziel(p', z)) \notin Bekannt(p') =>
                     /\ ~Verdrahtet(p', z)
                     /\ ~p'.zug[z[1]].korrekturen_definiert
               /\ (/\ z[1] \in Bekannt(p)
                   /\ Partner(Ziel(p', z)) \in Bekannt(p') \ Bekannt(p)
                   /\ Partnerzeile(p', Ziel(p', z)) # KeinIndex) =>
                     Ziel(p', <<Partner(Ziel(p', z)), Partnerzeile(p', Ziel(p', z))>>).auto_korrektur
                        = Anschluss(Ziel(p', z), z)]_vars

\* C20: no operation raises: zuege_uebernehmen, ereignis_uebernehmen,
\* fdl_korrektur_setzen and verspaetungen_korrigieren return normally in
\* every reachable state and for every input
C20_KeineAusnahme == p.fehler = ""

\* the correction a sweep applies to the row z: the manual one if there is
\* one, else the automatic one
Wirksam(pl, z) ==
    IF Ziel(pl, z).fdl_korrektur # KeineKorrektur THEN Ziel(pl, z).fdl_korrektur
    ELSE Ziel(pl, z).auto_korrektur
\* the corrections that compute with planned times
BrauchtZeit(korr) ==
    korr.typ \in {"Einfahrt", "Plan", "Ankunft", "Abfahrt", "Ersatz", "Kupplung", "Fluegelung"}
\* a planned time the correction korr needs on the row z is absent: the
\* planned arrival of the row, the planned arrival (AnkunftAbwarten) or
\* departure (AbfahrtAbwarten) of the origin row
ZeitFehlt(pl, korr, z) ==
    \/ ~HatZeit(Ziel(pl, z).an)
    \/ /\ korr.typ \in {"Ankunft", "Abfahrt"}
       /\ korr.ursprung # KeinZiel
       /\ ~HatZeit(IF korr.typ = "Ankunft" THEN Ziel(pl, korr.ursprung).an
                   ELSE Ziel(pl, korr.ursprung).ab)
\* anwenden of the correction the sweep applies to the row z
Angewandt(pl, z) == anwenden([pl EXCEPT !.fehler = ""], Wirksam(pl, z), z)

\* C21: applying a correction that computes with planned times to a row
\* whose planned arrival is absent, or whose origin row lacks the planned
\* time the correction reads, sets the departure delay of the row to its
\* arrival delay and does not raise
C21_FehlendeZeit ==
    \A z \in AlleZiele(p) :
        (BrauchtZeit(Wirksam(p, z)) /\ ZeitFehlt(p, Wirksam(p, z), z)) =>
            /\ Angewandt(p, z).fehler = ""
            /\ Ziel(Angewandt(p, z), z).verspaetung_ab = Ziel(p, z).verspaetung_an

Zugknoten(pl) == SeqSet(pl.zbN)
Ungerichtet(E) == E \cup {[e EXCEPT !.von = e.nach, !.nach = e.von] : e \in E}
Komponente(pl, a) == Nachfolger({a}, Ungerichtet(pl.zbE))

\* C23: after every ingestion zugstamm is an equivalence relation on the
\* zids of the zugbaum (reflexive, symmetric, transitive), and the family
\* of a zid is its connected component in the undirected zugbaum
C23_Zugstamm ==
    Ingestiert =>
        /\ \A a \in Zugknoten(p) :
              /\ a \in DOMAIN p.zugstamm
              /\ a \in p.zugstamm[a]
              /\ p.zugstamm[a] = Komponente(p, a)
        /\ \A a \in Zugknoten(p) \cap DOMAIN p.zugstamm : \A b \in p.zugstamm[a] :
              /\ b \in DOMAIN p.zugstamm
              /\ a \in p.zugstamm[b]
              /\ \A c \in p.zugstamm[b] : c \in p.zugstamm[a]

\* the position of x in the sequence s, 0 if it does not occur
Stelle(s, x) == IF InSeq(s, x) THEN CHOOSE i \in 1 .. Len(s) : s[i] = x ELSE 0
\* x occurs in s, and before y if y occurs
Davor(s, x, y) == Stelle(s, x) > 0 /\ (Stelle(s, y) > 0 => Stelle(s, x) < Stelle(s, y))

\* C24: after every ingestion the train order lists no successor train
\* before its parent: for every edge parent -> child of the zugbaum the
\* parent stands before the child in zugsortierung, and so in zugliste
\* (the order of zuege()) for the trains that are known
C24_StammzugZuerst ==
    Ingestiert =>
        \A e \in p.zbE :
            /\ Stelle(p.zugsortierung, e.von) > 0
            /\ Stelle(p.zugsortierung, e.nach) > 0
            /\ Stelle(p.zugsortierung, e.von) < Stelle(p.zugsortierung, e.nach)
            /\ (HatObj(p, e.von) /\ HatObj(p, e.nach)) => Davor(p.zugliste, e.von, e.nach)

\* the row of the node n, and the nodes whose row a sweep from pl to pl2
\* has taken from the order and that had not departed
Knotenzeile(pl, n) == pl.zgN[n].obj
Offen(pl, pl2) ==
    {n \in Bearbeitet(pl, pl2) : pl.zgN[n].attr /\ ~Wahr(Knotenziel(pl, n).abgefahren)}
\* the planned departure of a row, planned arrival + minimum dwell when absent
Planabfahrt(ziel) ==
    IF HatZeit(ziel.ab) THEN time_to_minutes(ziel.ab)
    ELSE time_to_minutes(ziel.an) + ziel.mindestaufenthalt
\* the earliest departure of a row after its minimum dwell
NachAufenthalt(ziel) ==
    time_to_minutes(ziel.an) + ziel.verspaetung_an + ziel.mindestaufenthalt

\* C25: a sweep that applies PlanmaessigeAbfahrt to a row with planned
\* arrival p_a, planned departure p_d (p_a + min_dwell when absent), arrival
\* delay v and minimum dwell m sets the departure delay to
\* max(p_a + v + m, p_d) - p_d, which is never negative and is 0 when the
\* train arrives at least m minutes before p_d
C25_PlanmaessigeAbfahrt ==
    [][(letzte' = "verspaetungen_korrigieren" /\ p'.fehler = "") =>
         \A n \in Offen(p, p') :
            (Wirksam(p, Knotenzeile(p, n)).typ = "Plan" /\ HatZeit(Knotenziel(p, n).an)) =>
               /\ Knotenziel(p', n).verspaetung_ab =
                     Max(NachAufenthalt(Knotenziel(p', n)), Planabfahrt(Knotenziel(p', n)))
                     - Planabfahrt(Knotenziel(p', n))
               /\ Knotenziel(p', n).verspaetung_ab >= 0
               /\ NachAufenthalt(Knotenziel(p', n)) <= Planabfahrt(Knotenziel(p', n))
                     => Knotenziel(p', n).verspaetung_ab = 0]_vars

\* a sweep has applied PlanmaessigeAbfahrt to a late row that makes up a
\* part of its delay
C25_Zeuge ==
    /\ Korrigiert /\ p.fehler = "" /\ zaehler.korr = 1
    /\ \E z \in AlleZiele(p) :
          /\ Wirksam(p, z).typ = "Plan"
          /\ ~Wahr(Ziel(p, z).abgefahren)
          /\ Ziel(p, z).verspaetung_an = MaxVerspaetung
          /\ Ziel(p, z).verspaetung_ab > 0
          /\ Ziel(p, z).verspaetung_ab < Ziel(p, z).verspaetung_an
          /\ Ziel(p, z).verspaetung_ab = NachAufenthalt(Ziel(p, z)) - Planabfahrt(Ziel(p, z))

\* C26: after a sweep every entry row that has not departed and whose
\* correction is Einfahrtszeit departs no earlier than the clock of the
\* simulator: planned departure + departure delay >= simzeit_minuten, and
\* departure delay = max(planned arrival + arrival delay, simzeit_minuten)
\* - planned departure
C26_EinfahrtNichtVorJetzt ==
    (Korrigiert /\ p.fehler = "") =>
        \A z \in AlleZiele(p) :
            (/\ Ziel(p, z).einfahrt
             /\ ~Wahr(Ziel(p, z).abgefahren)
             /\ Wirksam(p, z) = Einfahrtszeit
             /\ HatZeit(Ziel(p, z).an) /\ HatZeit(Ziel(p, z).ab)) =>
                /\ time_to_minutes(Ziel(p, z).ab) + Ziel(p, z).verspaetung_ab >= p.simzeit_minuten
                /\ Ziel(p, z).verspaetung_ab =
                      Max(time_to_minutes(Ziel(p, z).an) + Ziel(p, z).verspaetung_an,
                          p.simzeit_minuten) - time_to_minutes(Ziel(p, z).ab)

\* a sweep has run over the entry row of a train announced on time whose
\* planned entry lies before the clock: the row leaves at the clock
C26_Zeuge ==
    /\ Korrigiert /\ p.fehler = ""
    /\ \E z \in AlleZiele(p) :
          /\ Ziel(p, z).einfahrt
          /\ ~Wahr(Ziel(p, z).abgefahren)
          /\ Wirksam(p, z) = Einfahrtszeit
          /\ Ziel(p, z).verspaetung_an = 0
          /\ Ziel(p, z).verspaetung_ab > 0
          /\ time_to_minutes(Ziel(p, z).ab) + Ziel(p, z).verspaetung_ab = p.simzeit_minuten

\* the departure delay of a row that waits until the minute frueh:
\* max(a + dwell, frueh) - p_d with a = planned arrival + arrival delay and
\* dwell = max(p_d - a, min_dwell)
Wartend(ziel, frueh) ==
    LET p_d == Planabfahrt(ziel)
        a == time_to_minutes(ziel.an) + ziel.verspaetung_an
        dwell == Max(p_d - a, ziel.mindestaufenthalt)
    IN Max(a + dwell, frueh) - p_d
\* the minute the origin row of an AnkunftAbwarten arrives
Ursprungsankunft(pl, korr) ==
    time_to_minutes(Ziel(pl, korr.ursprung).an) + Ziel(pl, korr.ursprung).verspaetung_an

\* C27: AnkunftAbwarten(origin, wait), applied to a row in any state the
\* engine reaches, sets the departure delay of the row to
\* max(a + dwell, planned arrival of the origin + arrival delay of the
\* origin + wait) - p_d, so that the row does not leave before the arrival
\* minute of the origin plus wait
C27_AnkunftAbwarten ==
    \A z \in AlleZiele(p) :
        (/\ Wirksam(p, z).typ = "Ankunft"
         /\ HatZeit(Ziel(p, z).an) /\ HatZeit(Ziel(p, z).ab)
         /\ HatZeit(Ziel(p, Wirksam(p, z).ursprung).an)) =>
            /\ Angewandt(p, z).fehler = ""
            /\ Ziel(Angewandt(p, z), z).verspaetung_ab =
                  Wartend(Ziel(p, z), Ursprungsankunft(p, Wirksam(p, z)) + Wirksam(p, z).wartezeit)
            /\ time_to_minutes(Ziel(p, z).ab) + Ziel(Angewandt(p, z), z).verspaetung_ab
                  >= Ursprungsankunft(p, Wirksam(p, z)) + Wirksam(p, z).wartezeit

\* a sweep has applied AnkunftAbwarten to a row that has to wait for its
\* origin: it leaves at the arrival minute of the origin plus wait, later
\* than its own dwell asks for
C27_Zeuge ==
    /\ Korrigiert /\ p.fehler = "" /\ zaehler.korr = 1
    /\ \E z \in AlleZiele(p) :
          /\ Wirksam(p, z).typ = "Ankunft"
          /\ ~Wahr(Ziel(p, z).abgefahren)
          /\ HatZeit(Ziel(p, z).an) /\ HatZeit(Ziel(p, z).ab)
          /\ HatZeit(Ziel(p, Wirksam(p, z).ursprung).an)
          /\ time_to_minutes(Ziel(p, z).ab) + Ziel(p, z).verspaetung_ab
                = Ursprungsankunft(p, Wirksam(p, z)) + Wirksam(p, z).wartezeit
          /\ Ziel(p, z).verspaetung_ab > Wartend(Ziel(p, z), 0)
          /\ Ziel(p, z).verspaetung_ab = Ziel(Angewandt(p, z), z).verspaetung_ab

\* the row of the coupling partner at the track of the row z, KeinIndex if
\* the partner is unknown or does not call at the track
Kuppelzeile(pl, z) ==
    IF Ziel(pl, z).kuppelzug # 0 /\ HatObj(pl, Ziel(pl, z).kuppelzug)
    THEN find_fahrplan_index(pl.zug[Ziel(pl, z).kuppelzug].fahrplan, Ziel(pl, z).plan)
    ELSE KeinIndex
Kuppelziel(pl, z) == Ziel(pl, <<Ziel(pl, z).kuppelzug, Kuppelzeile(pl, z)>>)
\* the arrival minute of a row
Ankunftsminute(ziel) == time_to_minutes(ziel.an) + ziel.verspaetung_an
\* the row z is one a sweep applies Kupplung to, with a partner row
Kuppelnd(pl, z) ==
    /\ Wirksam(pl, z) = Kupplung
    /\ ~Wahr(Ziel(pl, z).abgefahren)
    /\ HatZeit(Ziel(pl, z).an)
    /\ Kuppelzeile(pl, z) # KeinIndex
    /\ HatZeit(Kuppelziel(pl, z).an)
\* the state in which the separation loop of Kupplung.anwenden starts: the
\* partner has been brought up to date
VorSchleife(pl) == korrigieren([pl EXCEPT !.fehler = ""])
\* the separation after the application (nach), given the state in which
\* the loop started (vor)
Getrennt(vor, nach, z) ==
    /\ Abs(Ankunftsminute(Kuppelziel(nach, z)) - Ankunftsminute(Ziel(nach, z))) >= 2
    /\ Ankunftsminute(Kuppelziel(vor, z)) = Ankunftsminute(Ziel(vor, z)) =>
          /\ Ziel(nach, z).verspaetung_an = Ziel(vor, z).verspaetung_an + 2
          /\ Abs(Ankunftsminute(Kuppelziel(nach, z)) - Ankunftsminute(Ziel(nach, z))) = 2
    /\ Kuppelziel(nach, z).verspaetung_an = Kuppelziel(vor, z).verspaetung_an

\* C28: after Kupplung has been applied to a row, the arrival minute a of
\* the row and the arrival minute ka of the partner at the coupling track
\* are at least 2 apart; when both coincide as the separation loop starts,
\* the arrival delay of the row grows by exactly 2 and the separation is
\* exactly 2; the loop leaves the arrival delay of the partner alone. This
\* holds for the application in every state the engine reaches, and a
\* sweep that applied Kupplung ends with the two rows at least 2 apart
C28_Kupplungsabstand ==
    [][/\ \A z \in AlleZiele(p') :
             (Kuppelnd(p', z) /\ Angewandt(p', z).fehler = "") =>
                 Getrennt(VorSchleife(p'), Angewandt(p', z), z)
       /\ (letzte' = "verspaetungen_korrigieren" /\ p'.fehler = "") =>
             \A n \in Offen(p, p') :
                Kuppelnd(p, Knotenzeile(p, n)) =>
                   Abs(Ankunftsminute(Kuppelziel(p', Knotenzeile(p, n)))
                       - Ankunftsminute(Ziel(p', Knotenzeile(p, n)))) >= 2]_vars

\* a sweep has applied Kupplung to a row that arrived in the same minute as
\* its partner: its arrival delay is 2 above the delay of its train, the
\* two rows are exactly 2 apart
C28_Zeuge ==
    /\ Korrigiert /\ p.fehler = "" /\ zaehler.korr = 1
    /\ \E z \in AlleZiele(p) :
          /\ Kuppelnd(p, z)
          /\ ~Wahr(Ziel(p, z).angekommen)
          /\ Ziel(p, z).verspaetung_an = Zug(p, z).verspaetung + 2
          /\ Kuppelziel(p, z).verspaetung_an = Zug(p, z).verspaetung
          /\ Ankunftsminute(Ziel(p, z)) - Ankunftsminute(Kuppelziel(p, z)) = 2

\* the row z is one a sweep applies Ersatzzug to, naming a known train
Ersatzbekannt(pl, z) ==
    /\ Wirksam(pl, z) = Ersatzzug
    /\ ~Wahr(Ziel(pl, z).abgefahren)
    /\ HatZeit(Ziel(pl, z).an)
    /\ Ziel(pl, z).ersatzzug # 0
    /\ HatObj(pl, Ziel(pl, z).ersatzzug)
    /\ Len(pl.zug[Ziel(pl, z).ersatzzug].fahrplan) > 0

\* ... and the known train is still heading for its first row
Ersetzend(pl, z) ==
    /\ Ersatzbekannt(pl, z)
    /\ ~Wahr(pl.zug[Ziel(pl, z).ersatzzug].fahrplan[1].angekommen)
    /\ pl.zug[Ziel(pl, z).ersatzzug].plangleis = pl.zug[Ziel(pl, z).ersatzzug].fahrplan[1].plan

\* the sweep from pl to pl2 has handed the departure delay of row z over to
\* the replacement train, to its first row, and has recomputed its rows
Uebergeben(pl, pl2, z) ==
    LET y == Ziel(pl, z).ersatzzug
    IN /\ pl2.zug[y].verspaetung = Ziel(pl2, z).verspaetung_ab
       /\ pl2.zug[y].fahrplan[1].verspaetung_an = Ziel(pl2, z).verspaetung_ab
       /\ \A m \in DOMAIN pl.zgN :
             (pl.zgN[m].attr /\ Knotenzeile(pl, m)[1] = y) => m \in Bearbeitet(pl, pl2)

Gefluegelt(pl, z) ==
    /\ Ziel(pl, z).auto_korrektur = Fluegelung
    /\ fluegel_zid(Ziel(pl, z)) # 0
    /\ HatObj(pl, fluegel_zid(Ziel(pl, z)))
    /\ Len(pl.zug[fluegel_zid(Ziel(pl, z))].fahrplan) > 0

\* the row z is one a sweep applies Fluegelung to
Fluegelnd(pl, z) ==
    /\ Gefluegelt(pl, z)
    /\ Wirksam(pl, z) = Fluegelung
    /\ ~Wahr(Ziel(pl, z).abgefahren)
    /\ HatZeit(Ziel(pl, z).an)

\* the first row of the train that the row z names
Fluegelzeile(pl, z) == pl.zug[fluegel_zid(Ziel(pl, z))].fahrplan[1]
Abfahrtsminute(ziel) == Planabfahrt(ziel) + ziel.verspaetung_ab

\* the first row of the named train waits for the departure from the row z
Angeschlossen(pl, z) == Fluegelzeile(pl, z).auto_korrektur = AbfahrtAbwarten(z, 2)
\* ... and is a row a sweep applies this correction to
Wartet(pl, z) ==
    /\ Wirksam(pl, <<fluegel_zid(Ziel(pl, z)), 0>>) = AbfahrtAbwarten(z, 2)
    /\ ~Wahr(Fluegelzeile(pl, z).abgefahren)
\* the named train and its first row have the arrival delay of the row z
Verteilt(pl, z) ==
    /\ pl.zug[fluegel_zid(Ziel(pl, z))].verspaetung = Ziel(pl, z).verspaetung_an
    /\ Fluegelzeile(pl, z).verspaetung_an = Ziel(pl, z).verspaetung_an
\* the first row of the named train departs at least 2 minutes after the row z
Danach(pl, z) == Abfahrtsminute(Fluegelzeile(pl, z)) >= Abfahrtsminute(Ziel(pl, z)) + 2

Angeschlossene(pl) ==
    {z \in AlleZiele(pl) : Ziel(pl, z).auto_korrektur.typ \in {"Ankunft", "Abfahrt"}}

\* the auto_korrektur a row has by its kind and flags alone
NachArt(ziel) ==
    IF ziel.einfahrt THEN {Einfahrtszeit}
    ELSE IF ziel.ausfahrt \/ durchfahrt(ziel) THEN {KeineKorrektur}
    ELSE IF ersatz_zid(ziel) # 0 THEN {Ersatzzug}
    ELSE IF kuppel_zid(ziel) # 0 THEN {Kupplung}
    ELSE IF fluegel_zid(ziel) # 0 THEN {Fluegelung}
    ELSE {PlanmaessigeAbfahrt} \cup {Signalhalt(v) : v \in 1 .. 20}

\* C31: after every ingestion every row of every known train carries the
\* auto_korrektur of its kind: Einfahrtszeit on an entry, none on an exit
\* and a pass-through, Ersatzzug, Kupplung or Fluegelung on a row naming a
\* peer, PlanmaessigeAbfahrt (or the Signalhalt of a departure event) on
\* every other hold
C31_KorrekturNachArt ==
    Ingestiert => \A z \in AlleZiele(p) : Ziel(p, z).auto_korrektur \in NachArt(Ziel(p, z))

\* the same after the ingestions that returned normally, for the rows that
\* no other row has wired to wait for it, a Signalhalt allowed on every row
C31_KorrekturNachArtSonst ==
    (Ingestiert /\ p.fehler = "") =>
        \A z \in AlleZiele(p) \ Angeschlossene(p) :
            Ziel(p, z).auto_korrektur \in NachArt(Ziel(p, z)) \cup {Signalhalt(v) : v \in 1 .. 20}

\* C32: after every ingestion every node of the zielgraph has its
\* attributes (the row obj, the planned minutes p_an and p_ab, the delays
\* v_an and v_ab), the nodes at the far end of the E, K and F edges included
C32_KnotenMitZeile ==
    Ingestiert => \A n \in DOMAIN p.zgN : p.zgN[n].attr

\* C33: every sweep ends: the calls of verspaetungen_korrigieren that
\* Ersatzzug, Kupplung and Fluegelung make from inside the running sweep
\* never nest deeper than the interpreter allows, and a sweep that returns
\* normally has taken every node from the generator
C33_SchachtelungEndet ==
    Korrigiert =>
        /\ p.fehler # "RecursionError"
        /\ p.tiefe = 0
        /\ p.fehler = "" => p.zielsortierung.rest = <<>>

\* a first sweep has returned normally after it applied Kupplung, which
\* calls the sweep twice from inside, to a row that has not departed
C33_Zeuge ==
    /\ Korrigiert /\ p.fehler = "" /\ zaehler.korr = 1
    /\ p.zielsortierung.rest = <<>>
    /\ \E z \in AlleZiele(p) : Kuppelnd(p, z) /\ Ziel(p, z).kuppelzug # 0

\* C34: the loop of Kupplung.anwenden ends for every kuppel_an, planned
\* arrival and arrival delay at its start, after at most 3 increments: only
\* ziel.verspaetung_an changes in it, and it ends with the value that
\* kuppel_schleife computes
C34_SchleifeEndet ==
    /\ [](/\ p.erhoehungen <= 3
          /\ p.verspaetung_an = p.anfang + p.erhoehungen
          /\ letzte = "ankunft" =>
                /\ Abs(p.kuppel_an - (p.plan_an + p.verspaetung_an)) >= 2
                /\ p.verspaetung_an = kuppel_schleife(p.kuppel_an, p.plan_an, p.anfang))
    /\ <>(letzte = "ankunft")

\* the loop has ended after 3 increments
C34_Zeuge ==
    letzte = "ankunft" /\ p.erhoehungen = 3

\* the order in which a sweep of pl takes the nodes, sortierung being the
\* order of a generator that has not been started
Reihenfolge(pl, sortierung) ==
    IF pl.zielsortierung.neu THEN sortierung ELSE pl.zielsortierung.rest
\* the nodes of the row z
KnotenDer(pl, z) == {m \in DOMAIN pl.zgN : pl.zgN[m].attr /\ pl.zgN[m].obj = z}
\* the node n of a row that waits for another row comes after a node of
\* that row in the order s
NachUrsprung(pl, s, n) ==
    LET korr == Wirksam(pl, Knotenzeile(pl, n))
    IN (korr.typ \in {"Ankunft", "Abfahrt"} /\ korr.ursprung # KeinZiel) =>
          \E m \in KnotenDer(pl, korr.ursprung) :
             Stelle(s, m) > 0 /\ Stelle(s, m) < Stelle(s, n)

\* C35: whenever a sweep applies AnkunftAbwarten or AbfahrtAbwarten, set by
\* the dispatcher or installed automatically, to a row, the same sweep has
\* processed the origin row before
C35_UrsprungZuerst ==
    [][\A sortierung \in (IF p.zielsortierung.neu THEN Zielsortierungen(p) ELSE {<<>>}) :
          (letzte' = "verspaetungen_korrigieren"
             /\ p' = verspaetungen_korrigieren(p, sortierung)) =>
               \A n \in Offen(p, p') : NachUrsprung(p, Reihenfolge(p, sortierung), n)]_vars

\* the same for the corrections installed automatically
C35_UrsprungZuerstAuto ==
    [][\A sortierung \in (IF p.zielsortierung.neu THEN Zielsortierungen(p) ELSE {<<>>}) :
          (letzte' = "verspaetungen_korrigieren"
             /\ p' = verspaetungen_korrigieren(p, sortierung)) =>
               \A n \in Offen(p, p') :
                  Ziel(p, Knotenzeile(p, n)).fdl_korrektur = KeineKorrektur =>
                     NachUrsprung(p, Reihenfolge(p, sortierung), n)]_vars

\* the delays of the trains and of their rows
Zeilenbild(pl) == Verspaetungsbild(pl).zug
\* the orders of the nodes of an acyclic zielgraph
Gueltige(pl) == {s \in Zielsortierungen(pl) : ~InSeq(s, Unfeasible)}

\* C36: the delays of the trains and rows after a sweep do not depend on
\* the topological order of the zielgraph in which the sweep takes the nodes
C36_OrdnungEgal ==
    p.zielsortierung.neu =>
        \A s1, s2 \in Gueltige(p) :
            Zeilenbild(verspaetungen_korrigieren(p, s1)) = Zeilenbild(verspaetungen_korrigieren(p, s2))

\* C37: a sweep does not change the departure delay and the planned
\* departure of a row that had departed before it: no correction is applied
\* to such a row
C37_AbgefahrenBleibt ==
    [][letzte' = "verspaetungen_korrigieren" =>
         \A z \in AlleZiele(p) :
            Wahr(Ziel(p, z).abgefahren) =>
               /\ Ziel(p', z).verspaetung_ab = Ziel(p, z).verspaetung_ab
               /\ Ziel(p', z).ab = Ziel(p, z).ab
               /\ Ziel(p', z).abgefahren = Ziel(p, z).abgefahren]_vars

\* the first sweep after an ingestion has processed every node and has left
\* alone a departed row whose correction would give another departure delay
C37_Zeuge ==
    /\ Korrigiert /\ p.fehler = "" /\ zaehler.korr = 1 /\ zaehler.ueb >= 1
    /\ p.zielsortierung.rest = <<>>
    /\ \E z \in AlleZiele(p) :
          /\ Wahr(Ziel(p, z).abgefahren)
          /\ KnotenDer(p, z) # {}
          /\ Wirksam(p, z) # KeineKorrektur
          /\ Angewandt(p, z).fehler = ""
          /\ Ziel(Angewandt(p, z), z).verspaetung_ab # Ziel(p, z).verspaetung_ab

\* C38: the markers angekommen and abgefahren of a row, once set (True or
\* a time), are never reset by an ingestion, an event, a dispatcher
\* correction or a sweep
C38_MarkenBleiben ==
    [][\A z \in AlleZiele(p) \cap AlleZiele(p') :
          /\ Wahr(Ziel(p, z).angekommen) => Wahr(Ziel(p', z).angekommen)
          /\ Wahr(Ziel(p, z).abgefahren) => Wahr(Ziel(p', z).abgefahren)]_vars

\* an ingestion has kept the time an event had written into a marker
C38_Zeuge ==
    /\ Ingestiert /\ p.fehler = "" /\ zaehler.erg >= 1
    /\ \E z \in AlleZiele(p) :
          /\ Ziel(p, z).abgefahren \notin {NEIN, JA}
          /\ Ziel(p, z).angekommen # NEIN

\* C39: in every state a row that is marked abgefahren is marked angekommen
C39_AbgefahrenIstAngekommen ==
    \A z \in AlleZiele(p) : Wahr(Ziel(p, z).abgefahren) => Wahr(Ziel(p, z).angekommen)

\* C40: a Signalhalt that an abfahrt event has installed as auto_korrektur
\* of a row stays on the row over every later ingestion as long as the row
\* has not departed, whatever the kind and the flags of the row
C40_SignalhaltBleibt ==
    [][letzte' = "zuege_uebernehmen" =>
         \A z \in AlleZiele(p) \cap AlleZiele(p') :
            (Ziel(p, z).auto_korrektur.typ = "Signal" /\ ~Wahr(Ziel(p', z).abgefahren)) =>
               Ziel(p', z).auto_korrektur = Ziel(p, z).auto_korrektur]_vars

\* the same for the rows that are no entry, name no other train and are not
\* the row that a row naming their train wires to wait for it
C40_SignalhaltBleibtAmHalt ==
    [][letzte' = "zuege_uebernehmen" =>
         \A z \in AlleZiele(p) \cap AlleZiele(p') :
            (/\ Ziel(p, z).auto_korrektur.typ = "Signal" /\ ~Wahr(Ziel(p', z).abgefahren)
             /\ ~Ziel(p, z).einfahrt
             /\ ersatz_zid(Ziel(p, z)) = 0 /\ kuppel_zid(Ziel(p, z)) = 0
             /\ fluegel_zid(Ziel(p, z)) = 0
             /\ z \notin Angeschlossene(p')
             /\ p'.fehler = "") =>
               Ziel(p', z).auto_korrektur = Ziel(p, z).auto_korrektur]_vars

====
